---- MODULE Spec2Model ----
(***************************************************************************)
(* The POST /hierarchy handler of src/data.js: one query of                *)
(* hierarchy_metrics_agg_rm, then a synchronous build of the territory     *)
(* tree (buildNode) with the KPI fields averaged and the product           *)
(* quantities summed bottom-up.  With it PUT /updateProductQty, which      *)
(* writes that table, and the validation of the scope key by the handlers  *)
(* that read one territory's data.                                         *)
(*                                                                         *)
(* JavaScript values are records [k, n, s]: k is the type tag, n the       *)
(* number and s the characters of a string.  Numbers are held in tenths,   *)
(* so Num(805) is 80.5; every number the model stores has at most one      *)
(* decimal.  A quotient that is only rounded afterwards (avg) is kept      *)
(* exact as the pair [num, den].                                           *)
(***************************************************************************)
EXTENDS Integers, Sequences, FiniteSets, TLC

VARIABLES
    table,      \* the rows of hierarchy_metrics_agg_rm, in the order a SELECT returns them
    pc,         \* pc[c]: where the handler of request c stands
    query,      \* query[c]: the state of the one query request c issues
    req,        \* req[c]: the body of request c
    rows,       \* rows[c]: the binding `rows` of the handler that serves request c
    invoked,    \* invoked[c]: buildNode was called while serving request c
    resp,       \* resp[c]: the response sent for request c
    returned,   \* history: the row set the query of request c resolved to
    fresh,      \* history: no UPDATE has run since request c arrived
    interleaved,\* history: another handler ran while request c was in flight
    wpc,        \* wpc[w]: where the PUT /updateProductQty handler of request w stands
    wreq,       \* wreq[w]: the body of update request w
    wcur,       \* wcur[w]: currentRows, the column values the SELECT of w resolved to
    wres,       \* wres[w]: result.affectedRows of the UPDATE of w
    wresp,      \* wresp[w]: the response sent for update request w
    updates,    \* history: the UPDATE statements request w has issued
    old,        \* history: the table as it stood before the last UPDATE
    prior,      \* history: prior[c] is the body c had been answered for when the last UPDATE ran
    spc,        \* where the handler of the request to a scoped endpoint stands
    sreq,       \* that request: the endpoint and the value of its scope key
    squeries,   \* the queries that handler has issued
    sresp,      \* the response sent for it
    commitments,\* the rows of the table commitments, by id
    cpc,        \* where the PUT /updateCommitment handler stands
    creq,       \* the body of the request to it
    cres,       \* result.affectedRows of its UPDATE
    cresp,      \* the response sent for it
    cold,       \* history: commitments when that request arrived
    sales,      \* the rows of sales_data of the territory R, in the order a SELECT returns them
    ppc,        \* where the POST /getTable2 handler stands
    preq,       \* the territory of the request to it
    presp,      \* the response sent for it
    store,      \* the rows the bulk-insert endpoints have inserted, by table
    bpc,        \* where the handler of the bulk-insert request stands
    breq,       \* that request: the endpoint and req.body
    issued,     \* the INSERT statements that handler has issued
    bresp,      \* the response sent for it
    bold,       \* history: store when that request arrived
    scores,     \* the rows of the FTM and YTD score tables for the territory R
    epc,        \* where the handler of the efficiency request stands
    ereq,       \* that request: the endpoint and Territory
    fetched,    \* ftmRows and ytdRows, once their queries have resolved
    eresp       \* the response sent for it

hvars == <<pc, query, req, rows, invoked, resp, returned, fresh, interleaved>>

wvars == <<wpc, wreq, wcur, wres, wresp, updates, old, prior>>

svars == <<spc, sreq, squeries, sresp>>

cvars == <<commitments, cpc, creq, cres, cresp, cold>>

\* The variables of the endpoints that do not touch hierarchy_metrics_agg_rm.
pvars == <<sales, ppc, preq, presp>>

bvars == <<store, bpc, breq, issued, bresp, bold>>

evars == <<scores, epc, ereq, fetched, eresp>>

xvars == <<cvars, pvars, bvars, evars>>

vars == <<table, hvars, wvars, svars, xvars>>

---------------------------------------------------------------------------
(* JavaScript values *)

Undefined == [k |-> "undefined", n |-> 0, s |-> <<>>]
Null == [k |-> "null", n |-> 0, s |-> <<>>]
NaN == [k |-> "nan", n |-> 0, s |-> <<>>]
True == [k |-> "bool", n |-> 1, s |-> <<>>]
False == [k |-> "bool", n |-> 0, s |-> <<>>]
Num(i) == [k |-> "num", n |-> i, s |-> <<>>]
Str(cs) == [k |-> "str", n |-> 0, s |-> cs]

\* ToBoolean: what `x ? a : b`, `x || y`, `x && y` and `if (x)` test.
Truthy(v) ==
    \/ v.k = "num" /\ v.n # 0
    \/ v.k = "str" /\ v.s # <<>>
    \/ v.k = "bool" /\ v.n = 1

\* `v || 0`, as in `ch.Coverage || 0` and `a + (b || 0)`.
OrZero(v) == IF Truthy(v) THEN v ELSE Num(0)

IsSpace(c) == c = " "

RECURSIVE TrimStart(_)
TrimStart(cs) ==
    IF cs # <<>> /\ IsSpace(Head(cs)) THEN TrimStart(Tail(cs)) ELSE cs

RECURSIVE TrimEnd(_)
TrimEnd(cs) ==
    IF cs # <<>> /\ IsSpace(cs[Len(cs)])
    THEN TrimEnd(SubSeq(cs, 1, Len(cs) - 1))
    ELSE cs

\* String.prototype.trim
trim(cs) == TrimEnd(TrimStart(cs))

Digits == <<"0", "1", "2", "3", "4", "5", "6", "7", "8", "9">>

IsDigit(c) == \E d \in 1..Len(Digits) : Digits[d] = c

DigitVal(c) == (CHOOSE d \in 1..Len(Digits) : Digits[d] = c) - 1

RECURSIVE TakeDigits(_)
TakeDigits(cs) ==
    IF cs # <<>> /\ IsDigit(Head(cs))
    THEN <<Head(cs)>> \o TakeDigits(Tail(cs))
    ELSE <<>>

RECURSIVE DigitsValue(_)
DigitsValue(ds) ==
    IF ds = <<>> THEN 0
    ELSE 10 * DigitsValue(SubSeq(ds, 1, Len(ds) - 1)) + DigitVal(ds[Len(ds)])

\* parseFloat of a string: leading white space, a sign, the longest decimal
\* literal; NaN when there is no digit.  The result is in tenths (decimals
\* after the first are dropped; the stored strings have at most one, and none
\* spells an exponent or Infinity).
ParseFloatStr(cs) ==
    LET t == TrimStart(cs)
        signed == t # <<>> /\ Head(t) \in {"-", "+"}
        u == IF signed THEN Tail(t) ELSE t
        ip == TakeDigits(u)
        rest == SubSeq(u, Len(ip) + 1, Len(u))
        fp == IF rest # <<>> /\ Head(rest) = "." THEN TakeDigits(Tail(rest)) ELSE <<>>
        mag == 10 * DigitsValue(ip) + (IF fp = <<>> THEN 0 ELSE DigitVal(fp[1]))
    IN  IF ip = <<>> /\ fp = <<>> THEN NaN
        ELSE Num(IF signed /\ Head(t) = "-" THEN 0 - mag ELSE mag)

\* parseFloat(v): v is converted to a string first, so a number comes back
\* as itself and anything that does not spell a number is NaN.
parseFloat(v) ==
    CASE v.k = "num" -> v
      [] v.k = "str" -> ParseFloatStr(v.s)
      [] OTHER -> NaN

---------------------------------------------------------------------------
(* Rows of hierarchy_metrics_agg_rm *)

KpiFields == {"Coverage", "Calls", "Compliance", "Chemist_Calls"}

QtyFields == {"Deksel_Midmonth_Qty", "Voltaneuron_Midmonth_Qty", "Proaxen_Midmonth_Qty"}

MetricFields == KpiFields \cup QtyFields

RowFields == {"Territory", "Area_Name", "Emp_Code", "Emp_Name", "Role"} \cup MetricFields

Row(terr, area, code, name, role, m) ==
    [Territory |-> Str(terr), Area_Name |-> area, Emp_Code |-> Str(code),
     Emp_Name |-> Str(name), Role |-> Str(role),
     Coverage |-> m.Coverage, Calls |-> m.Calls, Compliance |-> m.Compliance,
     Chemist_Calls |-> m.Chemist_Calls,
     Deksel_Midmonth_Qty |-> m.Deksel_Midmonth_Qty,
     Voltaneuron_Midmonth_Qty |-> m.Voltaneuron_Midmonth_Qty,
     Proaxen_Midmonth_Qty |-> m.Proaxen_Midmonth_Qty]

Vacant == <<"V", "a", "c", "a", "n", "t">>

\* The names of Object.prototype that POST /hierarchy can be asked for: a
\* lookup of one of them in the plain object byTerritory finds the inherited
\* member, an object that has none of a row's columns.
ObjectPrototypeKeys == {<<"v", "a", "l", "u", "e", "O", "f">>}

InheritedMember == [f \in RowFields |-> Undefined]

---------------------------------------------------------------------------
(* POST /hierarchy: the synchronous part that follows the query *)

\* byTerritory[key] after `rows.forEach((r) => (byTerritory[r.Territory] = r))`:
\* the last row with that Territory, else what the prototype chain holds.
byTerritory(rs, key) ==
    LET own == {i \in 1..Len(rs) : rs[i].Territory.s = key}
    IN  IF own # {} THEN rs[CHOOSE i \in own : \A j \in own : j <= i]
        ELSE IF key \in ObjectPrototypeKeys THEN InheritedMember
        ELSE Undefined

\* The exact quotient num/den of two numbers in tenths.
Quot(a, b) == [num |-> a, den |-> b]

RECURSIVE reduce(_)
\* arr.reduce((a, b) => a + (b || 0), 0)
reduce(arr) ==
    IF arr = <<>> THEN 0
    ELSE reduce(SubSeq(arr, 1, Len(arr) - 1)) + OrZero(arr[Len(arr)]).n

avg(arr) == IF Len(arr) > 0 THEN Quot(reduce(arr), Len(arr)) ELSE Quot(0, 1)

sum(arr) == IF Len(arr) > 0 THEN Quot(reduce(arr), 1) ELSE Quot(0, 1)

\* Math.round: the nearest integer, a half going up: floor(q + 1/2).
MathRound(q) == Num(10 * ((2 * q.num + 10 * q.den) \div (20 * q.den)))

\* `emp.F ? parseFloat(emp.F) : 0`
OwnMetric(emp, f) == IF Truthy(emp[f]) THEN parseFloat(emp[f]) ELSE Num(0)

Throw(e) == [k |-> "throw", err |-> e]

\* The filter callback `r.Area_Name && r.Area_Name.trim() === emp.Territory.trim()`.
IsChildRow(r, emp) ==
    Truthy(r.Area_Name) /\ trim(r.Area_Name.s) = trim(emp.Territory.s)

\* The callback throws a TypeError when it reaches `.trim()` of something
\* that is no string.
FilterThrows(rs, emp) ==
    \E i \in 1..Len(rs) : Truthy(rs[i].Area_Name) /\ emp.Territory.k # "str"

childRows(rs, emp) == SelectSeq(rs, LAMBDA r : IsChildRow(r, emp))

RECURSIVE InsertionOrder(_)
\* The keys of `children` in the order Object.values visits them: each
\* Territory at its first insertion.
InsertionOrder(cr) ==
    IF cr = <<>> THEN <<>>
    ELSE LET init == InsertionOrder(SubSeq(cr, 1, Len(cr) - 1))
             key == cr[Len(cr)]
         IN  IF \E i \in 1..Len(init) : init[i] = key THEN init ELSE Append(init, key)

\* The values pushed into agg[f]: `ch[f] || 0` for each child.
Pushed(children, order, f) == [i \in 1..Len(order) |-> OrZero(children[order[i]][f])]

\* NodeMetric for a build that goes by the row's Role: a BE keeps its own
\* value, every other role takes the aggregate.  C14 tells the two apart.
NodeMetricByRole(emp, children, order, f) ==
    IF emp.Role # Str(<<"B", "E">>)
    THEN IF f \in KpiFields
         THEN MathRound(avg(Pushed(children, order, f)))
         ELSE MathRound(sum(Pushed(children, order, f)))
    ELSE OwnMetric(emp, f)

\* NodeMetric for a build that aggregates only into the fields the row
\* leaves empty: a value the row stores itself is kept.  C21 tells the two
\* apart.
NodeMetricKeepsStored(emp, children, order, f) ==
    IF Len(order) > 0 /\ ~ Truthy(emp[f])
    THEN IF f \in KpiFields
         THEN MathRound(avg(Pushed(children, order, f)))
         ELSE MathRound(sum(Pushed(children, order, f)))
    ELSE OwnMetric(emp, f)

\* node[f] once the aggregation block has run (or not).
NodeMetric(emp, children, order, f) ==
    IF Len(order) > 0
    THEN IF f \in KpiFields
         THEN MathRound(avg(Pushed(children, order, f)))
         ELSE MathRound(sum(Pushed(children, order, f)))
    ELSE OwnMetric(emp, f)

MakeNode(emp, children, order) ==
    [k |-> "node",
     empName |-> emp.Emp_Name, territory |-> emp.Territory, role |-> emp.Role,
     children |-> children,
     Coverage |-> NodeMetric(emp, children, order, "Coverage"),
     Calls |-> NodeMetric(emp, children, order, "Calls"),
     Compliance |-> NodeMetric(emp, children, order, "Compliance"),
     Chemist_Calls |-> NodeMetric(emp, children, order, "Chemist_Calls"),
     Deksel_Midmonth_Qty |-> NodeMetric(emp, children, order, "Deksel_Midmonth_Qty"),
     Voltaneuron_Midmonth_Qty |-> NodeMetric(emp, children, order, "Voltaneuron_Midmonth_Qty"),
     Proaxen_Midmonth_Qty |-> NodeMetric(emp, children, order, "Proaxen_Midmonth_Qty")]

RECURSIVE buildNode(_, _, _)
\* buildNode(terr) over the request's rows.  stack holds the territories of
\* the calls in progress: the function has no such set, and a call for a
\* territory that is already on the stack repeats its caller for ever, which
\* the runtime ends with a RangeError (call stack size exceeded).  The
\* result is a node, Null, or the exception thrown.
buildNode(rs, terr, stack) ==
    LET emp == byTerritory(rs, terr) IN
    IF emp = Undefined THEN Null
    ELSE IF terr \in stack THEN Throw("RangeError")
    ELSE IF FilterThrows(rs, emp) THEN Throw("TypeError")
    ELSE
      LET cr == childRows(rs, emp)
          built == [i \in 1..Len(cr) |->
                      buildNode(rs, cr[i].Territory.s, stack \cup {terr})]
          thrown == {i \in 1..Len(cr) : built[i].k = "throw"}
          kept == SelectSeq([i \in 1..Len(cr) |-> i], LAMBDA i : built[i] # Null)
          order == InsertionOrder([j \in 1..Len(kept) |-> cr[kept[j]].Territory.s])
          children == [key \in {order[j] : j \in 1..Len(order)} |->
                         built[CHOOSE i \in 1..Len(cr) : cr[i].Territory.s = key]]
      IN  IF thrown # {}
          THEN built[CHOOSE i \in thrown : \A j \in thrown : i <= j]
          ELSE MakeNode(emp, children, order)

\* One step of a build: buildNode is called for terr (call), the node's own
\* metrics are written at its creation (own), the aggregation block reads
\* the metrics of a child (read, by the call `by`), the aggregates are
\* written (agg), buildNode returns (return).  id is the call: the position
\* of the root among the requested territories, then the position of each
\* child row in the loop of its parent.
Event(e, id, terr, by) == [e |-> e, id |-> id, terr |-> terr, by |-> by]

RECURSIVE Flatten(_)
Flatten(ss) == IF ss = <<>> THEN <<>> ELSE ss[1] \o Flatten(Tail(ss))

\* NodeEvents for a build that fills in a node's aggregates before it
\* descends into the children.  C18 tells the two apart.
NodeEventsAggregateFirst(id, terr, below, kept) ==
    <<Event("call", id, terr, id), Event("own", id, terr, id)>>
        \o (IF kept # <<>>
            THEN [j \in 1..Len(kept) |-> Event("read", kept[j], terr, id)]
                    \o <<Event("agg", id, terr, id)>>
            ELSE <<>>)
        \o below
        \o <<Event("return", id, terr, id)>>

\* Lines 168-245 in the order they run for one call: the loop over
\* childRows with its recursive calls (below), the node literal, the
\* aggregation over Object.values(children) (kept) when there is a child,
\* the return.
NodeEvents(id, terr, below, kept) ==
    <<Event("call", id, terr, id)>>
        \o below
        \o <<Event("own", id, terr, id)>>
        \o (IF kept # <<>>
            THEN [j \in 1..Len(kept) |-> Event("read", kept[j], terr, id)]
                    \o <<Event("agg", id, terr, id)>>
            ELSE <<>>)
        \o <<Event("return", id, terr, id)>>

RECURSIVE Events(_, _, _)
\* The steps of buildNode(terr) as call id, for a build that does not
\* throw.  `children[c.Territory] = childNode` keeps, for each Territory,
\* the node of the last child row that carries it.
Events(rs, terr, id) ==
    LET emp == byTerritory(rs, terr) IN
    IF emp = Undefined
    THEN <<Event("call", id, terr, id), Event("return", id, terr, id)>>
    ELSE
      LET cr == childRows(rs, emp)
          below == Flatten([i \in 1..Len(cr) |->
                               Events(rs, cr[i].Territory.s, Append(id, i))])
          order == InsertionOrder([i \in 1..Len(cr) |-> cr[i].Territory.s])
          last(key) == CHOOSE i \in 1..Len(cr) :
                           /\ cr[i].Territory.s = key
                           /\ \A j \in 1..Len(cr) : cr[j].Territory.s = key => j <= i
          kept == [j \in 1..Len(order) |-> Append(id, last(order[j]))]
      IN  NodeEvents(id, terr, below, kept)

\* topLevels for a filter that takes the rows without a parent,
\* `rows.filter((r) => !r.Area_Name)`.  C13 tells the two apart.
topLevelsWithoutAreaName(rs) == SelectSeq(rs, LAMBDA r : ~ Truthy(r.Area_Name))

\* `rows.filter((r) => !allTerritories.includes(r.Area_Name))`
topLevels(rs) ==
    SelectSeq(rs, LAMBDA r : ~ \E i \in 1..Len(rs) : rs[i].Territory = r.Area_Name)

\* The territories buildNode is called for, in order.
Requested(rs, territory) ==
    IF Truthy(territory) THEN <<territory.s>>
    ELSE LET tl == topLevels(rs) IN [i \in 1..Len(tl) |-> tl[i].Territory.s]

\* The steps of lines 251-260: one build for each requested territory.
BuildEvents(rs, territory) ==
    LET want == Requested(rs, territory)
    IN  Flatten([k \in 1..Len(want) |-> Events(rs, want[k], <<k>>)])

Reply(status, body) == [status |-> status, body |-> body]

NoDataFound == [k |-> "message", message |-> "No data found"]

ServerError(e) == [k |-> "text", text |-> "Server error: ", err |-> e]

\* NoRows with the test written `if (!rows)`: an array is never falsy, so
\* the early return is never taken.  C8 tells the two apart.
NoRowsArrayIsTruthy(rs) == FALSE

\* `if (!rows.length) return res.json({ message: "No data found" })`
NoRows(rs) == Len(rs) = 0

\* Lines 155-266 once the query has resolved: the response.
Respond(rs, territory) ==
    IF NoRows(rs) THEN Reply(200, NoDataFound)
    ELSE
      LET want == Requested(rs, territory)
          built == [i \in 1..Len(want) |-> buildNode(rs, want[i], {})]
          thrown == {i \in 1..Len(want) : built[i].k = "throw"}
          keys == {want[i] : i \in {j \in 1..Len(want) : built[j] # Null}}
      IN  IF thrown # {}
          THEN Reply(500, ServerError(built[CHOOSE i \in thrown : \A j \in thrown : i <= j].err))
          ELSE Reply(200, [k |-> "hierarchy",
                           roots |-> [key \in keys |->
                               built[CHOOSE i \in 1..Len(want) : want[i] = key]]])

---------------------------------------------------------------------------
(* The table and the requests the model draws from *)

\* The most rows the table holds.
MaxRows == 4

Metrics(cov, calls, comp, chem, dek, vol, pro) ==
    [Coverage |-> cov, Calls |-> calls, Compliance |-> comp, Chemist_Calls |-> chem,
     Deksel_Midmonth_Qty |-> dek, Voltaneuron_Midmonth_Qty |-> vol,
     Proaxen_Midmonth_Qty |-> pro]

\* A row that stores no metric, as a manager's may.
P0 == Metrics(Null, Null, Null, Null, Null, Null, Null)

\* 80, 1, "7.5", 0, 10, "5", null
PA == Metrics(Num(800), Num(10), Str(<<"7", ".", "5">>), Num(0),
              Num(100), Str(<<"5">>), Null)

\* 60, 2, "2", null, 3, null, 0.5
PB == Metrics(Num(600), Num(20), Str(<<"2">>), Null,
              Num(30), Null, Num(5))

\* 61, -3, "", "abc", "4", 0.4, "abc"
PC == Metrics(Num(610), Num(0 - 30), Str(<<>>), Str(<<"a", "b", "c">>),
              Str(<<"4">>), Num(4), Str(<<"a", "b", "c">>))

\* 45, 3, 1, 2, 1, 2, 0
PD == Metrics(Num(450), Num(30), Num(10), Num(20), Num(10), Num(20), Num(0))

Mgr == <<"M", "G", "R">>

BE == <<"B", "E">>

\* The rows the table is drawn from, in the order the table stores them.
\* Territories R, A, B, C; Z is the Territory of no row.
Catalogue ==
    << Row(<<"R">>, Null, <<"E", "1">>, <<"r">>, Mgr, P0),
       Row(<<"A">>, Str(<<"R">>), <<"E", "2">>, <<"a">>, BE, PA),
       Row(<<"B">>, Str(<<"R">>), <<"E", "3">>, <<"b">>, BE, PB),
       Row(<<"C">>, Str(<<"R">>), <<"E", "4">>, <<"c">>, BE, PC),
       Row(<<"B">>, Str(<<"A">>), <<"E", "3">>, <<"b">>, BE, PB),
       Row(<<"C">>, Str(<<"A">>), <<"E", "4">>, <<"c">>, BE, PA),
       Row(<<"C">>, Str(<<"B">>), <<"E", "4">>, <<"c">>, BE, PC),
       Row(<<"A">>, Str(<<"R", " ">>), <<"E", "2">>, <<"a">>, BE, PB),
       Row(<<"A">>, Str(<<"Z">>), <<"E", "2">>, <<"a">>, BE, PA),
       Row(<<"R">>, Str(<<"A">>), <<"E", "1">>, <<"r">>, Mgr, PA),
       Row(<<"B">>, Str(<<"B">>), <<"E", "3">>, <<"b">>, BE, PB),
       Row(<<"B">>, Str(<<"R">>), Vacant, <<"b">>, BE, PA),
       Row(<<"A">>, Null, Vacant, <<"a">>, Mgr, P0),
       Row(<<"R">>, Null, <<"E", "1">>, <<"r">>, Mgr, PC),
       Row(<<"B">>, Str(<<"R">>), <<"E", "3">>, <<"b">>, BE, PD) >>

RECURSIVE Pick(_, _)
\* The rows of the catalogue at the positions in S, in catalogue order.
Pick(S, i) ==
    IF i > Len(Catalogue) THEN <<>>
    ELSE IF i \in S THEN <<Catalogue[i]>> \o Pick(S, i + 1)
    ELSE Pick(S, i + 1)

Tables ==
    {Pick(S, 1) : S \in {T \in SUBSET (1..Len(Catalogue)) : Cardinality(T) <= MaxRows}}

\* req.body: territory absent or a string, includeInactive absent or true.
Territories ==
    {Undefined, Str(<<"R">>), Str(<<"A">>), Str(<<"B">>), Str(<<"Z">>)}
        \cup {Str(key) : key \in ObjectPrototypeKeys}

Bodies == [territory : Territories, includeInactive : {Undefined, True}]

\* Bodies for what includeInactive is compared with: absent, true, false,
\* the string 'true' and the number 1.
InactiveBodies ==
    [territory : {Undefined, Str(<<"R">>), Str(<<"B">>)},
     includeInactive : {Undefined, True, False, Str(<<"t", "r", "u", "e">>), Num(10)}]

NoBody == [territory |-> Undefined, includeInactive |-> Undefined]

NoReply == Reply(0, [k |-> "none"])

\* The request slots.  A slot that is "off" never sends a request.
Clients == {1, 2}

---------------------------------------------------------------------------
(* The handler as a state machine: it runs to its one await, the query     *)
(* resolves or rejects, and the rest runs without interruption.            *)

TypeOK ==
    /\ pc \in [Clients -> {"off", "idle", "await", "resume", "done"}]
    /\ query \in [Clients -> {"none", "pending", "resolved", "rejected"}]
    /\ req \in [Clients -> Bodies \cup InactiveBodies]
    /\ invoked \in [Clients -> BOOLEAN]
    /\ interleaved \in [Clients -> BOOLEAN]
    /\ fresh \in [Clients -> BOOLEAN]
    /\ \A c \in Clients : Len(rows[c]) <= Len(table)

\* PUT /updateProductQty, lines 293-312: territory, metric_type and value
\* of req.body.  A metric_type is a column name; the value is a number.
Column(name) == [k |-> "str", name |-> name]

UpdateBodies ==
    [territory : {Undefined, Str(<<"A">>)},
     metric_type : {Column("Deksel_Midmonth_Qty"), Column("Coverage")},
     value : {Undefined, Num(100), Num(70)}]

NoUpdate == [territory |-> Undefined, metric_type |-> Undefined, value |-> Undefined]

\* The update request slots.  A slot that is "off" never sends a request.
Writers == {1, 2}

\* No request of the slot had been answered when the last UPDATE ran.
NoPrior == [territory |-> Null, includeInactive |-> Null]

\* The endpoints that read one territory's data, each with the place of its
\* scope key, the queries it issues one after the other, and what it sends
\* when a query finds no row.
Endpoints ==
    [checkrole |-> [key |-> "query.territory", queries |-> 1, none |-> 200],
     getdivision |-> [key |-> "query.territory", queries |-> 1, none |-> 200],
     dashboardData |-> [key |-> "body.Territory", queries |-> 1, none |-> 404],
     bmDashboardData |-> [key |-> "body.Territory", queries |-> 1, none |-> 404],
     blDashboardData |-> [key |-> "body.Territory", queries |-> 1, none |-> 404],
     bhDashboardData |-> [key |-> "body.Territory", queries |-> 1, none |-> 404],
     sbuhDashboardData |-> [key |-> "body.Territory", queries |-> 1, none |-> 404],
     dashboardytdData |-> [key |-> "body.Territory", queries |-> 1, none |-> 404],
     bmDashboardytdData |-> [key |-> "body.Territory", queries |-> 1, none |-> 404],
     blDashboardytdData |-> [key |-> "body.Territory", queries |-> 1, none |-> 404],
     bhDashboardytdData |-> [key |-> "body.Territory", queries |-> 1, none |-> 404],
     sbuhDashboardytdData |-> [key |-> "body.Territory", queries |-> 1, none |-> 404],
     dashboardYTD |-> [key |-> "body.Territory", queries |-> 1, none |-> 404],
     dashboardFTD |-> [key |-> "body.Territory", queries |-> 1, none |-> 404],
     bmEfficiency |-> [key |-> "body.Territory", queries |-> 2, none |-> 404],
     blEfficiency |-> [key |-> "body.Territory", queries |-> 2, none |-> 404],
     bhEfficiency |-> [key |-> "body.Territory", queries |-> 2, none |-> 404],
     sbuhEfficiency |-> [key |-> "body.Territory", queries |-> 2, none |-> 404],
     getMessagesByTerritory |-> [key |-> "body.receiver_territory", queries |-> 1, none |-> 200],
     getTable1 |-> [key |-> "body.territory", queries |-> 1, none |-> 200],
     getTable2 |-> [key |-> "body.territory", queries |-> 1, none |-> 200]]

\* The scope key of a request: absent, null, '' or a territory.
ScopeKeys == {Undefined, Null, Str(<<>>), Str(<<"R">>)}

NoScoped == [endpoint |-> "none", key |-> Undefined]

\* The state after construction: the table holds t, the slots in clients and
\* writers are ready for a request, every other slot is off.
StartHierarchy(t, clients, writers, scoped) ==
    /\ table = t
    /\ pc = [c \in Clients |-> IF c \in clients THEN "idle" ELSE "off"]
    /\ query = [c \in Clients |-> "none"]
    /\ req = [c \in Clients |-> NoBody]
    /\ rows = [c \in Clients |-> <<>>]
    /\ invoked = [c \in Clients |-> FALSE]
    /\ resp = [c \in Clients |-> NoReply]
    /\ returned = [c \in Clients |-> <<>>]
    /\ fresh = [c \in Clients |-> TRUE]
    /\ interleaved = [c \in Clients |-> FALSE]
    /\ wpc = [w \in Writers |-> IF w \in writers THEN "idle" ELSE "off"]
    /\ wreq = [w \in Writers |-> NoUpdate]
    /\ wcur = [w \in Writers |-> <<>>]
    /\ wres = [w \in Writers |-> 0]
    /\ wresp = [w \in Writers |-> NoReply]
    /\ updates = [w \in Writers |-> 0]
    /\ old = t
    /\ prior = [c \in Clients |-> NoPrior]
    /\ spc = IF scoped THEN "idle" ELSE "off"
    /\ sreq = NoScoped
    /\ squeries = 0
    /\ sresp = NoReply

NoCommitment == [id |-> Undefined, receiver_commit_date |-> Undefined, goal |-> Undefined]

\* PUT /updateCommitment is sent no request.
CommitmentsOff ==
    /\ commitments = <<>>
    /\ cpc = "off"
    /\ creq = NoCommitment
    /\ cres = 0
    /\ cresp = NoReply
    /\ cold = <<>>

\* POST /getTable2 is sent no request.
PivotOff ==
    /\ sales = <<>>
    /\ ppc = "off"
    /\ preq = Undefined
    /\ presp = NoReply

\* The tables of the bulk-insert endpoints, with no row inserted.
NoRowsStored == [commitments |-> <<>>, escalations |-> <<>>, information |-> <<>>]

NoBulk == [endpoint |-> "none", array |-> FALSE, items |-> <<>>]

\* The bulk-insert endpoints are sent no request.
BulkOff ==
    /\ store = NoRowsStored
    /\ bpc = "off"
    /\ breq = NoBulk
    /\ issued = 0
    /\ bresp = NoReply
    /\ bold = NoRowsStored

\* No score row is fetched: ftmRows and ytdRows before their queries
\* resolve; `resolved` holds the queries that have.
NoneFetched == [ftm |-> <<>>, ytd |-> <<>>, resolved |-> {}]

NoScores == [ftm |-> <<>>, ytd |-> <<>>]

NoEfficiency == [endpoint |-> "none", Territory |-> Undefined]

\* The efficiency endpoints are sent no request.
EfficiencyOff ==
    /\ scores = NoScores
    /\ epc = "off"
    /\ ereq = NoEfficiency
    /\ fetched = NoneFetched
    /\ eresp = NoReply

\* The state after construction with no request to any other endpoint.
Start(t, clients, writers, scoped) ==
    /\ StartHierarchy(t, clients, writers, scoped)
    /\ CommitmentsOff
    /\ PivotOff
    /\ BulkOff
    /\ EfficiencyOff

Init == \E t \in Tables : Start(t, {1}, {}, FALSE)

\* interleaved once the handler of c has taken a step: every other request
\* that is in flight has seen another handler run.
Passing(c) ==
    [x \in Clients |-> IF x # c /\ pc[x] \in {"await", "resume"} THEN TRUE
                       ELSE interleaved[x]]

\* Receive for a handler that keeps the last tree it sent and sends it again
\* when the same body arrives, without a query.  C12 tells the two apart.
ReceiveServesCached(c, body) ==
    IF pc[c] = "done" /\ query[c] = "resolved" /\ req[c] = body
    THEN /\ fresh' = [fresh EXCEPT ![c] = TRUE]
         /\ UNCHANGED <<table, pc, query, req, rows, invoked, resp, returned,
                        interleaved, wvars, svars, xvars>>
    ELSE /\ pc[c] \in {"idle", "done"}
         /\ pc' = [pc EXCEPT ![c] = "await"]
         /\ query' = [query EXCEPT ![c] = "pending"]
         /\ req' = [req EXCEPT ![c] = body]
         /\ rows' = [rows EXCEPT ![c] = <<>>]
         /\ invoked' = [invoked EXCEPT ![c] = FALSE]
         /\ resp' = [resp EXCEPT ![c] = NoReply]
         /\ returned' = [returned EXCEPT ![c] = <<>>]
         /\ fresh' = [fresh EXCEPT ![c] = TRUE]
         /\ interleaved' = [Passing(c) EXCEPT ![c] = FALSE]
         /\ UNCHANGED <<table, wvars, svars, xvars>>

\* Lines 140-153: the handler starts, issues its query and awaits it.  A
\* slot takes its next request once the last one is answered.  Nothing of
\* an earlier request is kept: `rows`, `byTerritory` and `hierarchy` are
\* declared inside the handler.
Receive(c, body) ==
    /\ pc[c] \in {"idle", "done"}
    /\ pc' = [pc EXCEPT ![c] = "await"]
    /\ query' = [query EXCEPT ![c] = "pending"]
    /\ req' = [req EXCEPT ![c] = body]
    /\ rows' = [rows EXCEPT ![c] = <<>>]
    /\ invoked' = [invoked EXCEPT ![c] = FALSE]
    /\ resp' = [resp EXCEPT ![c] = NoReply]
    /\ returned' = [returned EXCEPT ![c] = <<>>]
    /\ fresh' = [fresh EXCEPT ![c] = TRUE]
    /\ interleaved' = [Passing(c) EXCEPT ![c] = FALSE]
    /\ UNCHANGED <<table, wvars, svars, xvars>>

\* `WHERE Emp_Code != 'Vacant'`.  Every row of the catalogue has a string
\* in Emp_Code, either 'Vacant' or a code that differs from it in more than
\* case; a NULL Emp_Code, which != also leaves out, is not drawn.
NotVacant(r) == r.Emp_Code # Str(Vacant)

\* Select for a test written `if (includeInactive)`: every truthy value
\* asks for the vacant rows.  C24 tells the two apart.
SelectWhenTruthy(t, includeInactive) ==
    IF Truthy(includeInactive) THEN t ELSE SelectSeq(t, NotVacant)

\* Lines 145-153: the row set of the query the request issued,
\* `includeInactive === true` deciding which.
Select(t, includeInactive) ==
    IF includeInactive = True THEN t ELSE SelectSeq(t, NotVacant)

\* StoreRows for a `rows` declared once at module level: every handler in
\* flight reads the row set assigned last.  C11 tells the two apart.
StoreRowsShared(rws, c, result) == [x \in DOMAIN rws |-> result]

\* `let rows = []` (line 143) is a binding of the invocation, and lines 146
\* and 150 assign the query's row set to it.
StoreRows(rws, c, result) == [rws EXCEPT ![c] = result]

\* The query resolves with the rows the table holds at that moment.
QueryResolves(c) ==
    /\ pc[c] = "await" /\ query[c] = "pending"
    /\ pc' = [pc EXCEPT ![c] = "resume"]
    /\ query' = [query EXCEPT ![c] = "resolved"]
    /\ rows' = StoreRows(rows, c, Select(table, req[c].includeInactive))
    /\ returned' = [returned EXCEPT ![c] = Select(table, req[c].includeInactive)]
    /\ interleaved' = Passing(c)
    /\ UNCHANGED <<table, req, invoked, resp, fresh, wvars, svars, xvars>>

\* The query rejects (the connection is lost, the statement fails).
QueryRejects(c) ==
    /\ pc[c] = "await" /\ query[c] = "pending"
    /\ pc' = [pc EXCEPT ![c] = "resume"]
    /\ query' = [query EXCEPT ![c] = "rejected"]
    /\ interleaved' = Passing(c)
    /\ UNCHANGED <<table, req, rows, invoked, resp, returned, fresh, wvars, svars, xvars>>

\* buildNode is called at all: there are rows and a territory to build.
BuildCalled(rs, territory) == ~ NoRows(rs) /\ Len(Requested(rs, territory)) > 0

\* Lines 155-262 (and 263-266 when the build throws): the await returned
\* the rows and the handler runs to its response without interruption.
Continue(c) ==
    /\ pc[c] = "resume" /\ query[c] = "resolved"
    /\ pc' = [pc EXCEPT ![c] = "done"]
    /\ resp' = [resp EXCEPT ![c] = Respond(rows[c], req[c].territory)]
    /\ invoked' = [invoked EXCEPT ![c] = BuildCalled(rows[c], req[c].territory)]
    /\ interleaved' = Passing(c)
    /\ UNCHANGED <<table, query, req, rows, returned, fresh, wvars, svars, xvars>>

\* QueryFailed for a catch block that swallows the error and sends an empty
\* tree.  C9 tells the two apart.
QueryFailedSendsEmptyTree == Reply(200, [k |-> "hierarchy", roots |-> <<>>])

\* What the catch block sends when the await threw.
QueryFailed == Reply(500, ServerError("QueryError"))

\* Lines 263-266: the await threw and control is in the catch block.
Catch(c) ==
    /\ pc[c] = "resume" /\ query[c] = "rejected"
    /\ pc' = [pc EXCEPT ![c] = "done"]
    /\ resp' = [resp EXCEPT ![c] = QueryFailed]
    /\ interleaved' = Passing(c)
    /\ UNCHANGED <<table, query, req, rows, invoked, returned, fresh, wvars, svars, xvars>>

Next ==
    \/ \E c \in Clients, body \in Bodies : Receive(c, body)
    \/ \E c \in Clients : QueryResolves(c)
    \/ \E c \in Clients : QueryRejects(c)
    \/ \E c \in Clients : Continue(c)
    \/ \E c \in Clients : Catch(c)

Spec == Init /\ [][Next]_vars

---------------------------------------------------------------------------
(* The same handler over the smaller tables, for what is checked by building *)
(* every row set again with one Role changed                                 *)

\* The most rows of a table of SpecRoles.
MaxRoleRows == 3

InitRoles ==
    \E t \in {u \in Tables : Len(u) <= MaxRoleRows} : Start(t, {1}, {}, FALSE)

SpecRoles == InitRoles /\ [][Next]_vars

---------------------------------------------------------------------------
(* Two POST /hierarchy requests in flight at once *)

\* Tables on which the row set depends on includeInactive (a Vacant row)
\* and on which it does not.
ConcurrentTables ==
    {Pick({1, 2, 3}, 1), Pick({1, 2, 12}, 1), Pick({1, 3, 13}, 1),
     Pick({2, 3, 12, 14}, 1)}

InitConcurrent == \E t \in ConcurrentTables : Start(t, {1, 2}, {}, FALSE)

SpecConcurrent == InitConcurrent /\ [][Next]_vars

---------------------------------------------------------------------------
(* POST /hierarchy over tables with a vacant row, for every kind of value  *)
(* of includeInactive                                                      *)

InitInactive ==
    \E t \in {u \in Tables : \E i \in 1..Len(u) : ~ NotVacant(u[i])} :
        Start(t, {1}, {}, FALSE)

NextInactive ==
    \/ \E c \in Clients, body \in InactiveBodies : Receive(c, body)
    \/ \E c \in Clients : QueryResolves(c)
    \/ \E c \in Clients : QueryRejects(c)
    \/ \E c \in Clients : Continue(c)
    \/ \E c \in Clients : Catch(c)

SpecInactive == InitInactive /\ [][NextInactive]_vars

---------------------------------------------------------------------------
(* PUT /updateProductQty: a SELECT of the current value, then an UPDATE    *)

\* metric_type.toLowerCase() for the names the model draws.
toLowerCase(name) ==
    IF name = "Deksel_Midmonth_Qty" THEN "deksel_midmonth_qty"
    ELSE IF name = "Coverage" THEN "coverage"
    ELSE name

allowedMetrics ==
    {"deksel_midmonth_qty", "voltaneuron_midmonth_qty", "proaxen_midmonth_qty"}

UpdateRequired == Reply(400, [k |-> "error", error |-> "territory, metric_type, and value are required"])

UpdateInvalid == Reply(400, [k |-> "error", error |-> "Invalid metric_type"])

\* Lines 293-318: the two validations, then the SELECT is issued and awaited.
UpdateReceive(w, body) ==
    /\ wpc[w] \in {"idle", "done"}
    /\ wreq' = [wreq EXCEPT ![w] = body]
    /\ wcur' = [wcur EXCEPT ![w] = <<>>]
    /\ wres' = [wres EXCEPT ![w] = 0]
    /\ updates' = [updates EXCEPT ![w] = 0]
    /\ IF ~ Truthy(body.territory) \/ body.metric_type = Undefined
             \/ body.value = Undefined
       THEN /\ wpc' = [wpc EXCEPT ![w] = "done"]
            /\ wresp' = [wresp EXCEPT ![w] = UpdateRequired]
       ELSE IF toLowerCase(body.metric_type.name) \notin allowedMetrics
       THEN /\ wpc' = [wpc EXCEPT ![w] = "done"]
            /\ wresp' = [wresp EXCEPT ![w] = UpdateInvalid]
       ELSE /\ wpc' = [wpc EXCEPT ![w] = "select"]
            /\ wresp' = [wresp EXCEPT ![w] = NoReply]
    /\ UNCHANGED <<table, hvars, old, prior, svars, xvars>>

\* `SELECT <metric_type> ... WHERE Territory = ?`: the column of the rows of
\* that territory.  The territories drawn differ in more than case or
\* trailing blanks, so the collation's equality is the exact one.
CurrentRows(t, territory, name) ==
    LET hit == SelectSeq(t, LAMBDA r : r.Territory = territory)
    IN  [i \in 1..Len(hit) |-> hit[i][name]]

\* The SELECT resolves with the table as it stands.
SelectResolves(w) ==
    /\ wpc[w] = "select"
    /\ wpc' = [wpc EXCEPT ![w] = "selected"]
    /\ wcur' = [wcur EXCEPT ![w] =
                   CurrentRows(table, wreq[w].territory, wreq[w].metric_type.name)]
    /\ UNCHANGED <<table, hvars, wreq, wres, wresp, updates, old, prior, svars, xvars>>

AlreadyUpToDate == Reply(200, [k |-> "upToDate", alreadyUpToDate |-> TRUE])

\* Lines 320-328: the stored value is compared with === and either the
\* handler answers at once or the UPDATE is issued and awaited.
UpdateContinue(w) ==
    /\ wpc[w] = "selected"
    /\ IF Len(wcur[w]) > 0 /\ wcur[w][1] = wreq[w].value
       THEN /\ wpc' = [wpc EXCEPT ![w] = "done"]
            /\ wresp' = [wresp EXCEPT ![w] = AlreadyUpToDate]
            /\ UNCHANGED updates
       ELSE /\ wpc' = [wpc EXCEPT ![w] = "update"]
            /\ updates' = [updates EXCEPT ![w] = @ + 1]
            /\ UNCHANGED wresp
    /\ UNCHANGED <<table, hvars, wreq, wcur, wres, old, prior, svars, xvars>>

\* `UPDATE ... SET <metric_type> = ? WHERE Territory = ?`
UpdateRows(t, territory, name, value) ==
    [i \in 1..Len(t) |-> IF t[i].Territory = territory
                         THEN [t[i] EXCEPT ![name] = value] ELSE t[i]]

\* The rows the WHERE clause matches.
Matched(t, territory) == Len(SelectSeq(t, LAMBDA r : r.Territory = territory))

\* The UPDATE runs: every row of the territory takes the value.
UpdateResolves(w) ==
    /\ wpc[w] = "update"
    /\ wpc' = [wpc EXCEPT ![w] = "updated"]
    /\ table' = UpdateRows(table, wreq[w].territory, wreq[w].metric_type.name,
                           wreq[w].value)
    /\ wres' = [wres EXCEPT ![w] = Matched(table, wreq[w].territory)]
    /\ old' = table
    /\ prior' = [c \in Clients |->
                    IF pc[c] = "done" /\ query[c] = "resolved" /\ fresh[c]
                    THEN req[c] ELSE NoPrior]
    /\ fresh' = [c \in Clients |-> FALSE]
    /\ UNCHANGED <<pc, query, req, rows, invoked, resp, returned, interleaved,
                   wreq, wcur, wresp, updates, svars, xvars>>

\* Either query rejects.
UpdateRejects(w) ==
    /\ wpc[w] \in {"select", "update"}
    /\ wpc' = [wpc EXCEPT ![w] = "failed"]
    /\ UNCHANGED <<table, hvars, wreq, wcur, wres, wresp, updates, old, prior, svars, xvars>>

\* Lines 330-334.
UpdateFinish(w) ==
    /\ wpc[w] = "updated"
    /\ wpc' = [wpc EXCEPT ![w] = "done"]
    /\ wresp' = [wresp EXCEPT ![w] =
                    Reply(200, [k |-> "updated", success |-> TRUE,
                                affectedRows |-> wres[w], alreadyUpToDate |-> FALSE])]
    /\ UNCHANGED <<table, hvars, wreq, wcur, wres, updates, old, prior, svars, xvars>>

\* Lines 336-339.
UpdateCatch(w) ==
    /\ wpc[w] = "failed"
    /\ wpc' = [wpc EXCEPT ![w] = "done"]
    /\ wresp' = [wresp EXCEPT ![w] = Reply(500, [k |-> "error", error |-> "Server Error: "])]
    /\ UNCHANGED <<table, hvars, wreq, wcur, wres, updates, old, prior, svars, xvars>>

\* Tables with a manager over the territory A that the updates write to.
WriteTables == {Pick({1, 2, 3}, 1), Pick({1, 2, 3, 6}, 1)}

InitWrites == \E t \in WriteTables : Start(t, {1}, {1}, FALSE)

NextWrites ==
    \/ \E c \in Clients, body \in Bodies : Receive(c, body)
    \/ \E c \in Clients : QueryResolves(c)
    \/ \E c \in Clients : QueryRejects(c)
    \/ \E c \in Clients : Continue(c)
    \/ \E c \in Clients : Catch(c)
    \/ \E w \in Writers, body \in UpdateBodies : UpdateReceive(w, body)
    \/ \E w \in Writers : SelectResolves(w)
    \/ \E w \in Writers : UpdateContinue(w)
    \/ \E w \in Writers : UpdateResolves(w)
    \/ \E w \in Writers : UpdateRejects(w)
    \/ \E w \in Writers : UpdateFinish(w)
    \/ \E w \in Writers : UpdateCatch(w)

SpecWrites == InitWrites /\ [][NextWrites]_vars

---------------------------------------------------------------------------
(* Two PUT /updateProductQty requests in flight at once *)

\* Both write Deksel_Midmonth_Qty, or are refused for Coverage; Z is the
\* Territory of no row.
RacingBodies ==
    [territory : {Str(<<"A">>), Str(<<"Z">>)},
     metric_type : {Column("Deksel_Midmonth_Qty"), Column("Coverage")},
     value : {Num(100), Num(70)}]

\* Tables with one row for the territory A and with two that store
\* different quantities.
RacingTables == {Pick({1, 2, 3}, 1), Pick({1, 2, 8}, 1)}

InitRacing == \E t \in RacingTables : Start(t, {}, {1, 2}, FALSE)

NextRacing ==
    \/ \E w \in Writers, body \in RacingBodies : UpdateReceive(w, body)
    \/ \E w \in Writers : SelectResolves(w)
    \/ \E w \in Writers : UpdateContinue(w)
    \/ \E w \in Writers : UpdateResolves(w)
    \/ \E w \in Writers : UpdateRejects(w)
    \/ \E w \in Writers : UpdateFinish(w)
    \/ \E w \in Writers : UpdateCatch(w)

SpecRacing == InitRacing /\ [][NextRacing]_vars

---------------------------------------------------------------------------
(* The endpoints that read one territory's data *)

\* MissingKey for a handler that does not test the key.  C15 tells the two apart.
MissingKeyAccepted(key) == FALSE

\* `if (!Territory)`, `if (!territory)`, `if (!receiver_territory)`
MissingKey(key) == ~ Truthy(key)

KeyRequired(e) == Reply(400, [k |-> "error", error |-> "required", key |-> Endpoints[e].key])

\* The handler starts: the 400 of a missing key, else the first query is
\* issued and awaited.
ScopedReceive(e, key) ==
    /\ spc \in {"idle", "done"}
    /\ sreq' = [endpoint |-> e, key |-> key]
    /\ IF MissingKey(key)
       THEN /\ spc' = "done"
            /\ squeries' = 0
            /\ sresp' = KeyRequired(e)
       ELSE /\ spc' = "await"
            /\ squeries' = 1
            /\ sresp' = NoReply
    /\ UNCHANGED <<table, hvars, wvars, xvars>>

\* A query resolves: the handler issues its next query, or has them all.
ScopedQueryResolves ==
    /\ spc = "await"
    /\ IF squeries < Endpoints[sreq.endpoint].queries
       THEN /\ squeries' = squeries + 1
            /\ UNCHANGED spc
       ELSE /\ spc' = "resume"
            /\ UNCHANGED squeries
    /\ UNCHANGED <<table, hvars, wvars, xvars, sreq, sresp>>

ScopedQueryRejects ==
    /\ spc = "await"
    /\ spc' = "failed"
    /\ UNCHANGED <<table, hvars, wvars, xvars, sreq, squeries, sresp>>

\* The response once the rows are there; the tables these endpoints read
\* are not modelled, so a row is found or not.
ScopedContinue(found) ==
    /\ spc = "resume"
    /\ spc' = "done"
    /\ sresp' = IF found THEN Reply(200, [k |-> "data"])
                ELSE Reply(Endpoints[sreq.endpoint].none, [k |-> "none"])
    /\ UNCHANGED <<table, hvars, wvars, xvars, sreq, squeries>>

ScopedCatch ==
    /\ spc = "failed"
    /\ spc' = "done"
    /\ sresp' = Reply(500, [k |-> "error", error |-> "Internal Server Error"])
    /\ UNCHANGED <<table, hvars, wvars, xvars, sreq, squeries>>

InitScoped == Start(<<>>, {}, {}, TRUE)

NextScoped ==
    \/ \E e \in DOMAIN Endpoints, key \in ScopeKeys : ScopedReceive(e, key)
    \/ ScopedQueryResolves
    \/ ScopedQueryRejects
    \/ \E found \in BOOLEAN : ScopedContinue(found)
    \/ ScopedCatch

SpecScoped == InitScoped /\ [][NextScoped]_vars

---------------------------------------------------------------------------
(* PUT /updateCommitment: one UPDATE of the table commitments *)

\* The most rows the table commitments holds.
MaxCommitments == 2

\* The ids the table commitments can hold.
CommitmentIds == 1..MaxCommitments

\* What a commitment stores in the two columns the endpoint writes.
Dates == {Null, Str(<<"d", "0">>)}

Goals == {Null, Str(<<"g", "0">>)}

\* The tables the model starts from: a row for each id of some set.
CommitmentTables ==
    UNION {[S -> [receiver_commit_date : Dates, goal : Goals]] :
              S \in SUBSET CommitmentIds}

\* req.body: id absent, null, 0 or a number (in tenths, 1 and 2), each of
\* the two fields absent or given, null being a value that is given.
CommitmentBodies ==
    [id : {Undefined, Null, Num(0), Num(10), Num(20)},
     receiver_commit_date : {Undefined, Null, Str(<<"d", "1">>)},
     goal : {Undefined, Str(<<"g", "1">>)}]

\* SetClause for a handler that writes both columns whatever the body
\* holds, an absent field as NULL.  C26 tells the two apart.
SetClauseEveryField(body) ==
    {"receiver_commit_date", "goal"}

\* Lines 1811-1821: `fields`, the columns the SET clause assigns.
SetClause(body) ==
    {f \in {"receiver_commit_date", "goal"} : body[f] # Undefined}

\* The value bound to the placeholder of column f.
Bound(body, f) == IF body[f] = Undefined THEN Null ELSE body[f]

\* `WHERE id = ?`: the rows the UPDATE matches.
WhereId(t, id) == {i \in DOMAIN t : id.k = "num" /\ id.n = 10 * i}

\* The table once the UPDATE has run.
UpdateCommitments(t, body) ==
    [i \in DOMAIN t |->
        IF i \in WhereId(t, body.id)
        THEN [f \in {"receiver_commit_date", "goal"} |->
                 IF f \in SetClause(body) THEN Bound(body, f) ELSE t[i][f]]
        ELSE t[i]]

Text(status, text) == Reply(status, [k |-> "text", text |-> text])

\* Lines 1803-1834: the two validations, then the UPDATE is issued and
\* awaited.
CommitReceive(body) ==
    /\ cpc \in {"idle", "done"}
    /\ creq' = body
    /\ cres' = 0
    /\ cold' = commitments
    /\ IF ~ Truthy(body.id)
       THEN /\ cpc' = "done"
            /\ cresp' = Text(400, "Row ID is required")
       ELSE IF SetClause(body) = {}
       THEN /\ cpc' = "done"
            /\ cresp' = Text(400, "Nothing to update")
       ELSE /\ cpc' = "await"
            /\ cresp' = NoReply
    /\ UNCHANGED <<table, hvars, wvars, svars, pvars, bvars, evars, commitments>>

\* The UPDATE runs.  affectedRows is the number of rows the WHERE clause
\* matches (the driver connects with FOUND_ROWS).
CommitQueryResolves ==
    /\ cpc = "await"
    /\ cpc' = "resume"
    /\ commitments' = UpdateCommitments(commitments, creq)
    /\ cres' = Cardinality(WhereId(commitments, creq.id))
    /\ UNCHANGED <<table, hvars, wvars, svars, pvars, bvars, evars, creq, cresp, cold>>

\* The UPDATE fails and changes nothing.
CommitQueryRejects ==
    /\ cpc = "await"
    /\ cpc' = "failed"
    /\ UNCHANGED <<table, hvars, wvars, svars, pvars, bvars, evars, commitments, creq, cres, cresp, cold>>

\* Lines 1836-1840.
CommitContinue ==
    /\ cpc = "resume"
    /\ cpc' = "done"
    /\ cresp' = IF cres = 0 THEN Text(404, "No row found with this id")
                ELSE Text(200, "Updated successfully")
    /\ UNCHANGED <<table, hvars, wvars, svars, pvars, bvars, evars, commitments, creq, cres, cold>>

\* Lines 1841-1844.
CommitCatch ==
    /\ cpc = "failed"
    /\ cpc' = "done"
    /\ cresp' = Text(500, "Internal Server Error")
    /\ UNCHANGED <<table, hvars, wvars, svars, pvars, bvars, evars, commitments, creq, cres, cold>>

InitCommitments ==
    /\ StartHierarchy(<<>>, {}, {}, FALSE)
    /\ EfficiencyOff
    /\ commitments \in CommitmentTables
    /\ cpc = "idle"
    /\ creq = NoCommitment
    /\ cres = 0
    /\ cresp = NoReply
    /\ cold = commitments
    /\ PivotOff
    /\ BulkOff

NextCommitments ==
    \/ \E body \in CommitmentBodies : CommitReceive(body)
    \/ CommitQueryResolves
    \/ CommitQueryRejects
    \/ CommitContinue
    \/ CommitCatch

SpecCommitments == InitCommitments /\ [][NextCommitments]_vars

---------------------------------------------------------------------------
(* POST /getTable2: the rows of sales_data pivoted by product *)

\* The most rows sales_data holds for the territory.
MaxSales == 3

\* Product names, one of them a member of Object.prototype.
ProductNames == {<<"P">>, <<"Q">>} \cup ObjectPrototypeKeys

StockistNames == {<<"S">>, <<"T">>}

\* Sales: 1 and 2.5.
SalesValues == {Num(10), Num(25)}

SalesRows == [ProductName : ProductNames, stockistname : StockistNames, Sales : SalesValues]

SalesTables == UNION {[1..n -> SalesRows] : n \in 0..MaxSales}

\* `pivot`: the product names in the order of their insertion, and the
\* object stored under each: GrandTotal and a property for each stockist.
NoPivot == [order |-> <<>>, entry |-> <<>>]

\* The callback of rows.forEach, lines 2063-2069.  For a product name that
\* Object.prototype defines, pivot[r.ProductName] is the inherited function:
\* it is truthy, no entry is made, and the two assignments write to that
\* function, not to pivot.
PivotRow(pv, r) ==
    IF r.ProductName \notin DOMAIN pv.entry /\ r.ProductName \in ObjectPrototypeKeys
    THEN pv
    ELSE
      LET made == IF r.ProductName \in DOMAIN pv.entry THEN pv
                  ELSE [order |-> Append(pv.order, r.ProductName),
                        entry |-> [p \in DOMAIN pv.entry \cup {r.ProductName} |->
                                      IF p = r.ProductName
                                      THEN [GrandTotal |-> Num(0), stockists |-> <<>>]
                                      ELSE pv.entry[p]]]
          e == made.entry[r.ProductName]
      IN  [made EXCEPT !.entry[r.ProductName] =
              [GrandTotal |-> Num(e.GrandTotal.n + r.Sales.n),
               stockists |-> [s \in DOMAIN e.stockists \cup {r.stockistname} |->
                                 IF s = r.stockistname THEN r.Sales
                                 ELSE e.stockists[s]]]]

RECURSIVE Pivot(_)
\* pivot after rows.forEach.
Pivot(rs) ==
    IF rs = <<>> THEN NoPivot
    ELSE PivotRow(Pivot(SubSeq(rs, 1, Len(rs) - 1)), rs[Len(rs)])

\* Object.values(pivot)
Results(pv) ==
    [i \in 1..Len(pv.order) |->
        [ProductName |-> pv.order[i],
         GrandTotal |-> pv.entry[pv.order[i]].GrandTotal,
         stockists |-> pv.entry[pv.order[i]].stockists]]

\* Lines 2050-2059: the 400 of a missing territory, else the query is
\* issued and awaited.
PivotReceive(key) ==
    /\ ppc \in {"idle", "done"}
    /\ preq' = key
    /\ IF MissingKey(key)
       THEN /\ ppc' = "done"
            /\ presp' = KeyRequired("getTable2")
       ELSE /\ ppc' = "await"
            /\ presp' = NoReply
    /\ UNCHANGED <<table, hvars, wvars, svars, cvars, bvars, evars, sales>>

\* The query resolves or rejects.
PivotQueryEnds(ok) ==
    /\ ppc = "await"
    /\ ppc' = IF ok THEN "resume" ELSE "failed"
    /\ UNCHANGED <<table, hvars, wvars, svars, cvars, bvars, evars, sales, preq, presp>>

\* Lines 2061-2071.
PivotContinue ==
    /\ ppc = "resume"
    /\ ppc' = "done"
    /\ presp' = Reply(200, [k |-> "results", results |-> Results(Pivot(sales))])
    /\ UNCHANGED <<table, hvars, wvars, svars, cvars, bvars, evars, sales, preq>>

\* Lines 2072-2075.
PivotCatch ==
    /\ ppc = "failed"
    /\ ppc' = "done"
    /\ presp' = Reply(500, [k |-> "error", error |-> "Database error"])
    /\ UNCHANGED <<table, hvars, wvars, svars, cvars, bvars, evars, sales, preq>>

InitPivot ==
    /\ StartHierarchy(<<>>, {}, {}, FALSE)
    /\ EfficiencyOff
    /\ CommitmentsOff
    /\ BulkOff
    /\ sales \in SalesTables
    /\ ppc = "idle"
    /\ preq = Undefined
    /\ presp = NoReply

NextPivot ==
    \/ \E key \in {Undefined, Str(<<"R">>)} : PivotReceive(key)
    \/ \E ok \in BOOLEAN : PivotQueryEnds(ok)
    \/ PivotContinue
    \/ PivotCatch

SpecPivot == InitPivot /\ [][NextPivot]_vars

---------------------------------------------------------------------------
(* POST /putData, /putEscalations, /putInfo: one INSERT of a batch *)

\* The most elements of a batch.
MaxBatch == 2

\* The most rows the three tables take together: a request that would
\* exceed it is not sent.
MaxStored == 2

\* The table each endpoint inserts into.
BulkTable ==
    [putData |-> "commitments", putEscalations |-> "escalations", putInfo |-> "information"]

\* A message is a sequence of words; "@name" is the placeholder.
Messages == {Undefined, Str(<<"hi">>), Str(<<"hi", "@name">>)}

\* The elements of a batch: objects, with or without a message, and null.
Elements ==
    [k : {"object"}, message : Messages, receiver : {Str(<<"bob">>)},
     metric : {Num(10)}] \cup {Null}

\* req.body after express.json(): an array of elements or a single object.
Batches ==
    [array : {TRUE}, items : UNION {[1..n -> Elements] : n \in 0..MaxBatch}]
        \cup [array : {FALSE}, items : {<<e>> : e \in Elements \ {Null}}]

\* `Array.isArray(req.body) ? req.body : [req.body]`
dataArray(body) == body.items

\* personalizedMsg.replace(/@name/g, row.receiver)
ReplaceName(words, receiver) ==
    [i \in 1..Len(words) |-> IF words[i] = "@name" THEN receiver.s[1] ELSE words[i]]

\* The callback of map throws a TypeError: a property of null is read, or,
\* in /putInfo, `includes` of a message that is undefined is called.
MapThrows(e, row) ==
    \/ row = Null
    \/ e = "putInfo" /\ row.message = Undefined

\* The callback of map: the tuple of values of one row (the columns the
\* model keeps: the personalised message, or metric).
Values(e, row) ==
    IF e = "putInfo"
    THEN [message |-> Str(ReplaceName(row.message.s, row.receiver))]
    ELSE [metric |-> row.metric]

\* Building `values` throws.
BulkThrows(e, body) ==
    \E i \in 1..Len(dataArray(body)) : MapThrows(e, dataArray(body)[i])

\* The handler up to its await: 400 for an empty array; 500 from the catch
\* block when building the values throws; else the INSERT of the whole batch
\* is issued.
BulkReceive(e, body) ==
    /\ bpc \in {"idle", "done"}
    /\ Len(store.commitments) + Len(store.escalations) + Len(store.information)
           + Len(dataArray(body)) <= MaxStored
    /\ breq' = [endpoint |-> e, array |-> body.array, items |-> body.items]
    /\ bold' = store
    /\ IF Len(dataArray(body)) = 0
       THEN /\ bpc' = "done"
            /\ issued' = 0
            /\ bresp' = Reply(400, [k |-> "error", error |-> "No data received"])
       ELSE IF BulkThrows(e, body)
       THEN /\ bpc' = "done"
            /\ issued' = 0
            /\ bresp' = Reply(500, [k |-> "error", error |-> "Internal Server Error"])
       ELSE /\ bpc' = "await"
            /\ issued' = 1
            /\ bresp' = NoReply
    /\ UNCHANGED <<table, hvars, wvars, svars, cvars, pvars, evars, store>>

\* `INSERT INTO ... VALUES ?` with the array of all tuples: one statement,
\* which inserts every row or, failing, none.
Insert(t, rws, ok) == IF ok THEN t \o rws ELSE t

\* The INSERT succeeds or fails.
BulkQueryEnds(ok) ==
    /\ bpc = "await"
    /\ bpc' = IF ok THEN "resume" ELSE "failed"
    /\ store' = [store EXCEPT ![BulkTable[breq.endpoint]] =
                    Insert(@, [i \in 1..Len(breq.items) |->
                                  Values(breq.endpoint, breq.items[i])], ok)]
    /\ UNCHANGED <<table, hvars, wvars, svars, cvars, pvars, evars, breq, issued, bresp, bold>>

\* The 201, with the count of the tuples in /putInfo.
BulkContinue ==
    /\ bpc = "resume"
    /\ bpc' = "done"
    /\ bresp' = IF breq.endpoint = "putInfo"
                THEN Reply(201, [k |-> "inserted", success |-> TRUE,
                                 inserted |-> Len(breq.items)])
                ELSE Reply(201, [k |-> "text", text |-> "success"])
    /\ UNCHANGED <<table, hvars, wvars, svars, cvars, pvars, evars, store, breq, issued, bold>>

\* The catch block after a failed INSERT.
BulkCatch ==
    /\ bpc = "failed"
    /\ bpc' = "done"
    /\ bresp' = Reply(500, [k |-> "error", error |-> "Internal Server Error"])
    /\ UNCHANGED <<table, hvars, wvars, svars, cvars, pvars, evars, store, breq, issued, bold>>

InitBulk ==
    /\ StartHierarchy(<<>>, {}, {}, FALSE)
    /\ EfficiencyOff
    /\ CommitmentsOff
    /\ PivotOff
    /\ store = NoRowsStored
    /\ bpc = "idle"
    /\ breq = NoBulk
    /\ issued = 0
    /\ bresp = NoReply
    /\ bold = NoRowsStored

NextBulk ==
    \/ \E e \in DOMAIN BulkTable, body \in Batches : BulkReceive(e, body)
    \/ \E ok \in BOOLEAN : BulkQueryEnds(ok)
    \/ BulkContinue
    \/ BulkCatch

SpecBulk == InitBulk /\ [][NextBulk]_vars

---------------------------------------------------------------------------
(* The efficiency endpoints: two SELECTs and the totals of their scores *)

\* The most rows a score table holds for one territory.
MaxScoreRows == 2

\* A number held in thousandths: a score has up to three decimals.
Milli(i) == [k |-> "milli", n |-> i, s |-> <<>>]

\* The first three decimals of the fraction digits fp, as thousandths.
Thousandths(fp) == DigitsValue(SubSeq(fp \o <<"0", "0", "0">>, 1, 3))

\* Number of a string: white space is trimmed, '' is 0, and the whole of
\* what is left must spell a decimal literal, or the result is NaN.  (The
\* strings drawn spell no exponent, no hex literal and no Infinity.)
StringToNumber(cs) ==
    LET t == trim(cs)
        signed == t # <<>> /\ Head(t) \in {"-", "+"}
        u == IF signed THEN Tail(t) ELSE t
        ip == TakeDigits(u)
        rest == SubSeq(u, Len(ip) + 1, Len(u))
        dotted == rest # <<>> /\ Head(rest) = "."
        fp == IF dotted THEN TakeDigits(Tail(rest)) ELSE <<>>
        left == IF dotted THEN SubSeq(rest, Len(fp) + 2, Len(rest)) ELSE rest
        mag == 1000 * DigitsValue(ip) + Thousandths(fp)
    IN  IF t = <<>> THEN Milli(0)
        ELSE IF left # <<>> \/ (ip = <<>> /\ fp = <<>>) THEN NaN
        ELSE Milli(IF signed /\ Head(t) = "-" THEN 0 - mag ELSE mag)

\* Number(v)
Number(v) ==
    CASE v.k = "milli" -> v
      [] v.k = "num" -> Milli(100 * v.n)
      [] v.k = "null" -> Milli(0)
      [] v.k = "bool" -> Milli(1000 * v.n)
      [] v.k = "str" -> StringToNumber(v.s)
      [] OTHER -> NaN

\* `Number(v) || 0`, in thousandths: NaN and 0 are falsy.
NumberOrZero(v) ==
    LET x == Number(v) IN IF x.k = "milli" /\ x.n # 0 THEN x.n ELSE 0

\* The decimal digits of the natural number n.
RECURSIVE DigitsOf(_)
DigitsOf(n) ==
    IF n < 10 THEN <<Digits[n + 1]>>
    ELSE DigitsOf(n \div 10) \o <<Digits[(n % 10) + 1]>>

\* x.toFixed(2) of the number x (in thousandths): the nearest number of two
\* decimals, as a string.  The double that holds a value ending in 5
\* thousandths lies above or below it (8.345 rounds to '8.35', 1.005 to
\* '1.00'), and `up` says which.
toFixed(x, up) ==
    LET m == IF x < 0 THEN 0 - x ELSE x
        h == (m \div 10) + (IF (m % 10) > 5 \/ ((m % 10) = 5 /\ up) THEN 1 ELSE 0)
    IN  Str((IF x < 0 THEN <<"-">> ELSE <<>>) \o DigitsOf(h \div 100) \o <<".">>
            \o <<Digits[((h \div 10) % 10) + 1], Digits[(h % 10) + 1]>>)

\* The columns each endpoint selects from its FTM and its YTD table.
Selected ==
    [bmEfficiency |->
        [ftm |-> <<"Target_Achieved_FTM_Score", "BPI_FTM_Score",
                   "Span_Performance_FTM_Score", "RX_Growth_FTM_Score",
                   "Viable_Territories_FTM_Score",
                   "Priority_Drs_Met_FTM_Score", "Calls_FTM_Score",
                   "Coverage_Score2", "Compliance_Score2",
                   "Marketing_Implementation_FTM_Score",
                   "MSP_Compliance_FTM_Score", "Priority_RX_Drs_FTM_Score",
                   "MSR_Comp_FTM_Score", "Outstanding_FTM_Score",
                   "Returns_Percent_FTM_Score", "CA_FTM_Score",
                   "Closing_FTM_Score">>,
         ytd |-> <<"Target_Achieved_YTD_Score",
                   "Brand_Performance_Index_YTD_Score",
                   "Span_of_Performance_YTD_Score", "RX_Growth_YTD_Score",
                   "Viable_Territories_YTD_Score",
                   "Priority_Drs_Met_YTD_Score", "Calls_YTD_Score",
                   "Coverage_YTD_Score", "Compliance_YTD_Score",
                   "Marketing_Implementation_YTD_Score",
                   "MSP_Compliance_YTD_Score", "Priority_RX_Drs_YTD_Score",
                   "MSR_Compliance_YTD_Score", "Returns_Percent_YTD_Score",
                   "CA_Percent_YTD_Score">>],
     blEfficiency |->
        [ftm |-> <<"Target_Achievement_Score",
                   "Territories_Achieving_Target_Score",
                   "Territories_Achieving_Cat_A_MEP_Score",
                   "Category_B_Sales_Vs_Target_Score",
                   "Corporate_Drs_Visited_Last_2M_Score",
                   "Corporate_Drs_Active_Prescribers_Score",
                   "Hiring_Quality_Index_Score", "Induction_Score",
                   "Infant_Attrition_Rate_Score",
                   "Overall_Attrition_Rate_Score", "Returns_Score",
                   "Outstanding_Score", "Marketing_Activity_Sales_Score",
                   "Closing_Score", "Team_Coverage_Score",
                   "Team_Compliance_Score", "BM_Priority_Drs_Coverage_Score",
                   "TP_Adherence_Score", "Secondary_Variance_Score",
                   "MSP_Compliance_Territories_Score",
                   "MSR_Compliance_Territories_Score">>,
         ytd |-> <<"Target_Achievement_Score",
                   "Territories_Achieving_Target_Score",
                   "Territories_Achieving_Cat_A_MEP_Score",
                   "Category_B_Sales_Vs_Target_Score",
                   "Corporate_Drs_Active_Prescribers_Score",
                   "Hiring_Quality_Index_Score", "Induction_Score",
                   "Infant_Attrition_Rate_Score",
                   "Overall_Attrition_Rate_Score", "Returns_Score",
                   "Marketing_Activity_Sales_Score", "Team_Coverage_Score",
                   "Team_Compliance_Score", "BM_Priority_Drs_Coverage_Score",
                   "TP_Adherence_Score", "Secondary_Variance_Score",
                   "MSP_Compliance_Territories_Score",
                   "MSR_Compliance_Territories_Score">>],
     bhEfficiency |->
        [ftm |-> <<"Target_Achievement_Score",
                   "Territories_Achieving_Cat_A_MEP_Score",
                   "Category_B_Sales_Vs_Target_Score",
                   "BMs_Achieving_Target_Score", "Span_of_Performance_Score",
                   "Overall_Attrition_Rate_Score",
                   "Secondary_Variance_Score",
                   "MSP_Compliance_Territories_Score",
                   "MSR_Compliance_Territories_Score",
                   "BE_Active_vs_Sanctioned_Score",
                   "BM_BL_Active_vs_Sanctioned_Score", "Returns_Score",
                   "Outstanding_Score", "Marketing_Activity_Sales_Score",
                   "Closing_Score", "Calls_Score", "Coverage_Score",
                   "Compliance_Score", "Priority_Drs_Coverage_Score",
                   "Priority_RX_Drs_Score", "BM_Priority_Drs_Coverage_Score">>,
         ytd |-> <<"Target_Achievement_Score",
                   "Territories_Achieving_Cat_A_MEP_Score",
                   "Category_B_Sales_Vs_Target_Score",
                   "BMs_Achieving_Target_Score", "Span_of_Performance_Score",
                   "Overall_Attrition_Rate_Score",
                   "Secondary_Variance_Score",
                   "MSP_Compliance_Territories_Score",
                   "MSR_Compliance_Territories_Score", "Returns_Score",
                   "Marketing_Activity_Sales_Score", "Calls_Score",
                   "Team_Coverage_Score", "Team_Compliance_Score",
                   "Corporate_Drs_Coverage_Score",
                   "Corporate_Drs_Active_Prescribers_Score",
                   "BM_Priority_Drs_Coverage_Score">>],
     sbuhEfficiency |->
        [ftm |-> <<"Target_Achievement_Score",
                   "Territories_Achieving_Cat_A_MEP_Score",
                   "Category_B_Sales_Vs_Target_Score",
                   "BMs_Achieving_Target_Score", "Span_of_Performance_Score",
                   "Overall_Attrition_Rate_Score",
                   "Secondary_Variance_Score",
                   "MSP_Compliance_Territories_Score",
                   "MSR_Compliance_Territories_Score",
                   "BE_Active_vs_Sanctioned_Score",
                   "BM_BL_Active_vs_Sanctioned_Score", "Returns_Score",
                   "Outstanding_Score", "Marketing_Activity_Sales_Score",
                   "Closing_Score", "Calls_Score", "Coverage_Score",
                   "Compliance_Score", "Priority_Drs_Coverage_Score",
                   "Priority_RX_Drs_Score", "BM_Priority_Drs_Coverage_Score">>,
         ytd |-> <<"Target_Achievement_Score",
                   "Territories_Achieving_Cat_A_MEP_Score",
                   "Category_B_Sales_Vs_Target_Score",
                   "BMs_Achieving_Target_Score", "Span_of_Performance_Score",
                   "Overall_Attrition_Rate_Score",
                   "Secondary_Variance_Score",
                   "MSP_Compliance_Territories_Score",
                   "MSR_Compliance_Territories_Score", "Returns_Score",
                   "Marketing_Activity_Sales_Score", "Calls_Score",
                   "Team_Coverage_Score", "Team_Compliance_Score",
                   "Corporate_Drs_Coverage_Score",
                   "Corporate_Drs_Active_Prescribers_Score",
                   "BM_Priority_Drs_Coverage_Score">>]]

\* The columns each category total adds up, in the order of the source:
\* ftm stands for the Month totals and ytd for the YTD totals.
Summed ==
    [bmEfficiency |->
        [ftm |->
            [business |-> <<"Target_Achieved_FTM_Score", "BPI_FTM_Score",
                            "Span_Performance_FTM_Score",
                            "RX_Growth_FTM_Score",
                            "Viable_Territories_FTM_Score">>,
             effort |-> <<"Priority_Drs_Met_FTM_Score", "Calls_FTM_Score",
                          "Coverage_Score2", "Compliance_Score2",
                          "Marketing_Implementation_FTM_Score",
                          "MSP_Compliance_FTM_Score",
                          "Priority_RX_Drs_FTM_Score", "MSR_Comp_FTM_Score">>,
             hygiene |-> <<"Outstanding_FTM_Score",
                           "Returns_Percent_FTM_Score", "CA_FTM_Score",
                           "Closing_FTM_Score">>],
         ytd |->
            [business |-> <<"Target_Achieved_YTD_Score",
                            "Brand_Performance_Index_YTD_Score",
                            "Span_of_Performance_YTD_Score",
                            "RX_Growth_YTD_Score",
                            "Viable_Territories_YTD_Score">>,
             effort |-> <<"Priority_Drs_Met_YTD_Score", "Calls_YTD_Score",
                          "Coverage_YTD_Score", "Compliance_YTD_Score",
                          "Marketing_Implementation_YTD_Score",
                          "MSP_Compliance_YTD_Score",
                          "Priority_RX_Drs_YTD_Score",
                          "MSR_Compliance_YTD_Score">>,
             hygiene |-> <<"Returns_Percent_YTD_Score",
                           "CA_Percent_YTD_Score">>]],
     blEfficiency |->
        [ftm |->
            [business |-> <<"Target_Achievement_Score",
                            "Territories_Achieving_Target_Score",
                            "Territories_Achieving_Cat_A_MEP_Score",
                            "Category_B_Sales_Vs_Target_Score",
                            "Corporate_Drs_Visited_Last_2M_Score",
                            "Corporate_Drs_Active_Prescribers_Score">>,
             effort |-> <<"Hiring_Quality_Index_Score", "Induction_Score",
                          "Infant_Attrition_Rate_Score",
                          "Overall_Attrition_Rate_Score">>,
             hygiene |-> <<"Returns_Score", "Outstanding_Score",
                           "Marketing_Activity_Sales_Score", "Closing_Score">>,
             commitment |-> <<"Team_Coverage_Score", "Team_Compliance_Score",
                              "BM_Priority_Drs_Coverage_Score",
                              "TP_Adherence_Score",
                              "Secondary_Variance_Score",
                              "MSP_Compliance_Territories_Score",
                              "MSR_Compliance_Territories_Score">>],
         ytd |->
            [business |-> <<"Target_Achievement_Score",
                            "Territories_Achieving_Target_Score",
                            "Territories_Achieving_Cat_A_MEP_Score",
                            "Corporate_Drs_Coverage_Score",
                            "Category_B_Sales_Vs_Target_Score",
                            "Corporate_Drs_Active_Prescribers_Score">>,
             effort |-> <<"Hiring_Quality_Index_Score", "Induction_Score",
                          "Infant_Attrition_Rate_Score",
                          "Overall_Attrition_Rate_Score">>,
             hygiene |-> <<"Returns_Score", "Marketing_Activity_Sales_Score">>,
             commitment |-> <<"Team_Coverage_Score", "Team_Compliance_Score",
                              "BM_Priority_Drs_Coverage_Score",
                              "TP_Adherence_Score",
                              "Secondary_Variance_Score",
                              "MSP_Compliance_Territories_Score",
                              "MSR_Compliance_Territories_Score">>]],
     bhEfficiency |->
        [ftm |->
            [business |-> <<"Target_Achievement_Score",
                            "Territories_Achieving_Cat_A_MEP_Score",
                            "Category_B_Sales_Vs_Target_Score",
                            "BMs_Achieving_Target_Score",
                            "Span_of_Performance_Score">>,
             effort |-> <<"Overall_Attrition_Rate_Score",
                          "Secondary_Variance_Score",
                          "MSP_Compliance_Territories_Score",
                          "MSR_Compliance_Territories_Score",
                          "BE_Active_vs_Sanctioned_Score",
                          "BM_BL_Active_vs_Sanctioned_Score">>,
             hygiene |-> <<"Returns_Score", "Outstanding_Score",
                           "Marketing_Activity_Sales_Score", "Closing_Score">>,
             commitment |-> <<"Calls_Score", "Coverage_Score",
                              "Compliance_Score",
                              "Priority_Drs_Coverage_Score",
                              "Priority_RX_Drs_Score",
                              "BM_Priority_Drs_Coverage_Score">>],
         ytd |->
            [business |-> <<"Target_Achievement_Score",
                            "Territories_Achieving_Cat_A_MEP_Score",
                            "Category_B_Sales_Vs_Target_Score",
                            "BMs_Achieving_Target_Score",
                            "Span_of_Performance_Score">>,
             effort |-> <<"Overall_Attrition_Rate_Score",
                          "Secondary_Variance_Score",
                          "MSP_Compliance_Territories_Score",
                          "MSR_Compliance_Territories_Score">>,
             hygiene |-> <<"Returns_Score", "Marketing_Activity_Sales_Score">>,
             commitment |-> <<"Calls_Score", "Team_Coverage_Score",
                              "Team_Compliance_Score",
                              "Corporate_Drs_Coverage_Score",
                              "Corporate_Drs_Active_Prescribers_Score",
                              "BM_Priority_Drs_Coverage_Score">>]],
     sbuhEfficiency |->
        [ftm |->
            [business |-> <<"Target_Achievement_Score",
                            "Territories_Achieving_Cat_A_MEP_Score",
                            "Category_B_Sales_Vs_Target_Score",
                            "BMs_Achieving_Target_Score",
                            "Span_of_Performance_Score">>,
             effort |-> <<"Overall_Attrition_Rate_Score",
                          "Secondary_Variance_Score",
                          "MSP_Compliance_Territories_Score",
                          "MSR_Compliance_Territories_Score",
                          "BE_Active_vs_Sanctioned_Score",
                          "BM_BL_Active_vs_Sanctioned_Score">>,
             hygiene |-> <<"Returns_Score", "Outstanding_Score",
                           "Marketing_Activity_Sales_Score", "Closing_Score">>,
             commitment |-> <<"Calls_Score", "Coverage_Score",
                              "Compliance_Score",
                              "Priority_Drs_Coverage_Score",
                              "Priority_RX_Drs_Score",
                              "BM_Priority_Drs_Coverage_Score">>],
         ytd |->
            [business |-> <<"Target_Achievement_Score",
                            "Territories_Achieving_Cat_A_MEP_Score",
                            "Category_B_Sales_Vs_Target_Score",
                            "BMs_Achieving_Target_Score",
                            "Span_of_Performance_Score">>,
             effort |-> <<"Overall_Attrition_Rate_Score",
                          "Secondary_Variance_Score",
                          "MSP_Compliance_Territories_Score",
                          "MSR_Compliance_Territories_Score">>,
             hygiene |-> <<"Returns_Score", "Marketing_Activity_Sales_Score">>,
             commitment |-> <<"Calls_Score", "Team_Coverage_Score",
                              "Team_Compliance_Score",
                              "Corporate_Drs_Coverage_Score",
                              "Corporate_Drs_Active_Prescribers_Score",
                              "BM_Priority_Drs_Coverage_Score">>]]]

\* The endpoints that apply toFixed(2) to every total.
Fixed == {"bmEfficiency", "blEfficiency"}

\* The 404 of each endpoint.
NoRecord ==
    [bmEfficiency |-> "No BM record found for this Territory",
     blEfficiency |-> "No BL record found for this Territory",
     bhEfficiency |-> "No BH record found",
     sbuhEfficiency |-> "No SBUH record found"]

EfficiencyEndpoints == DOMAIN Summed

Periods == {"ftm", "ytd"}

\* The categories endpoint e totals: /bmEfficiency has no commitment.
Categories(e) == DOMAIN Summed[e].ftm

\* What a score column holds: NULL, a number, or the string of a DECIMAL
\* or VARCHAR column.
ScorePatterns ==
    {<<Milli(1004), Null, Str(<<"a", "b", "c">>)>>,
     <<Str(<<"2", ".", "3", "3", "6">>), Milli(5), Str(<<"5", "a">>)>>,
     <<Milli(0 - 1500), Str(<<" ", "7", " ">>), Milli(1)>>}

\* The tables the model starts from: for the territory R up to
\* MaxScoreRows rows in the FTM table and in the YTD table, each row given
\* by the pattern its scores follow.
ScoreLists == UNION {[1..n -> ScorePatterns] : n \in 0..MaxScoreRows}

ScoreTables == [ftm : ScoreLists, ytd : ScoreLists]

\* The row endpoint e fetches from its table of period p when the scores
\* follow the pattern pat: one field for each selected column.
ScoreRow(e, p, pat) ==
    LET cols == Selected[e][p]
        at(c) == CHOOSE i \in 1..Len(cols) : cols[i] = c
    IN  [c \in {cols[i] : i \in 1..Len(cols)} |-> pat[(at(c) % Len(pat)) + 1]]

\* `WHERE .._Territory = ?`: the rows of the territory asked for.
ScoreRows(e, p, Territory) ==
    IF Territory = Str(<<"R">>)
    THEN [i \in 1..Len(scores[p]) |-> ScoreRow(e, p, scores[p][i])]
    ELSE <<>>

\* row.column: undefined when the query did not select the column.
Field(row, c) == IF c \in DOMAIN row THEN row[c] ELSE Undefined

\* (Number(row.c1) || 0) + (Number(row.c2) || 0) + ..., in thousandths.
RECURSIVE SumOfScores(_, _)
SumOfScores(row, cols) ==
    IF cols = <<>> THEN 0
    ELSE SumOfScores(row, SubSeq(cols, 1, Len(cols) - 1))
            + NumberOrZero(Field(row, cols[Len(cols)]))

\* One category total as it is reported: the sum, through toFixed(2) and
\* Number in /bmEfficiency and /blEfficiency.
CategoryTotal(e, row, cols, up) ==
    IF e \in Fixed
    THEN Number(toFixed(SumOfScores(row, cols), up)).n
    ELSE SumOfScores(row, cols)

\* The sum behind the efficiency index that leaves the commitment total out.
IndexWithoutCommitment(e, totals, p) ==
    totals[<<"business", p>>] + totals[<<"effort", p>>] + totals[<<"hygiene", p>>]

\* The sum behind efficiencyMonth and efficiencyYTD: business + effort +
\* hygiene, and + commitment where the endpoint has that category.
Index(e, totals, p) ==
    totals[<<"business", p>>] + totals[<<"effort", p>>] + totals[<<"hygiene", p>>]
        + (IF "commitment" \in Categories(e) THEN totals[<<"commitment", p>>] ELSE 0)

\* efficiencyMonth and efficiencyYTD as reported.
Efficiency(e, totals, p) ==
    IF e \in Fixed
    THEN Number(toFixed(Index(e, totals, p), TRUE)).n
    ELSE Index(e, totals, p)

\* The keys of the body: <<"business", "ftm">> stands for businessMonth,
\* <<"efficiency", "ytd">> for efficiencyYTD.
TotalKeys(e) == Categories(e) \X Periods

\* The body of the 200: every category total and the two indices.
Totals(e, ftm, ytd, up) ==
    LET row == [ftm |-> ftm, ytd |-> ytd]
        totals == [key \in TotalKeys(e) |->
                      CategoryTotal(e, row[key[2]], Summed[e][key[2]][key[1]], up[key])]
    IN  [key \in TotalKeys(e) \cup ({"efficiency"} \X Periods) |->
            IF key[1] = "efficiency" THEN Efficiency(e, totals, key[2])
            ELSE totals[key]]

\* The totals of endpoint e that end in 5 thousandths before toFixed(2)
\* rounds them: the ones the double may carry to either side.
Ties(e, ftm, ytd) ==
    LET row == [ftm |-> ftm, ytd |-> ytd]
    IN  {key \in TotalKeys(e) :
            /\ e \in Fixed
            /\ SumOfScores(row[key[2]], Summed[e][key[2]][key[1]]) % 10 = 5}

EfficiencyKeys == {Undefined, Str(<<>>), Str(<<"R">>), Str(<<"Z">>)}

\* The handler starts: the 400 of a missing Territory, else the FTM query
\* is issued and awaited.
EfficiencyReceive(e, Territory) ==
    /\ epc \in {"idle", "done"}
    /\ ereq' = [endpoint |-> e, Territory |-> Territory]
    /\ fetched' = NoneFetched
    /\ IF ~ Truthy(Territory)
       THEN /\ epc' = "done"
            /\ eresp' = Reply(400, [k |-> "error", error |-> "Territory is required"])
       ELSE /\ epc' = "ftm"
            /\ eresp' = NoReply
    /\ UNCHANGED <<table, hvars, wvars, svars, cvars, pvars, bvars, scores>>

\* The FTM query resolves with ftmRows and the YTD query is issued.
FtmResolves ==
    /\ epc = "ftm"
    /\ epc' = "ytd"
    /\ fetched' = [fetched EXCEPT !.ftm = ScoreRows(ereq.endpoint, "ftm", ereq.Territory),
                                  !.resolved = @ \cup {"ftm"}]
    /\ UNCHANGED <<table, hvars, wvars, svars, cvars, pvars, bvars, scores, ereq, eresp>>

\* The YTD query resolves with ytdRows.
YtdResolves ==
    /\ epc = "ytd"
    /\ epc' = "resume"
    /\ fetched' = [fetched EXCEPT !.ytd = ScoreRows(ereq.endpoint, "ytd", ereq.Territory),
                                  !.resolved = @ \cup {"ytd"}]
    /\ UNCHANGED <<table, hvars, wvars, svars, cvars, pvars, bvars, scores, ereq, eresp>>

\* Either query is rejected.
EfficiencyQueryRejects ==
    /\ epc \in {"ftm", "ytd"}
    /\ epc' = "failed"
    /\ UNCHANGED <<table, hvars, wvars, svars, cvars, pvars, bvars, scores, ereq, fetched, eresp>>

\* The 404 when either query found no row, else the totals of the first
\* row of each.
EfficiencyContinue ==
    /\ epc = "resume"
    /\ epc' = "done"
    /\ IF fetched.ftm = <<>> \/ fetched.ytd = <<>>
       THEN eresp' = Reply(404, [k |-> "message", message |-> NoRecord[ereq.endpoint]])
       ELSE \E above \in SUBSET Ties(ereq.endpoint, fetched.ftm[1], fetched.ytd[1]) :
               eresp' = Reply(200, [k |-> "efficiency",
                                    totals |-> Totals(ereq.endpoint, fetched.ftm[1],
                                                      fetched.ytd[1],
                                                      [key \in TotalKeys(ereq.endpoint) |->
                                                          key \in above])])
    /\ UNCHANGED <<table, hvars, wvars, svars, cvars, pvars, bvars, scores, ereq, fetched>>

\* The catch block after a rejected query.
EfficiencyCatch ==
    /\ epc = "failed"
    /\ epc' = "done"
    /\ eresp' = Reply(500, [k |-> "error", error |-> "Internal Server Error"])
    /\ UNCHANGED <<table, hvars, wvars, svars, cvars, pvars, bvars, scores, ereq, fetched>>

InitEfficiency ==
    /\ StartHierarchy(<<>>, {}, {}, FALSE)
    /\ CommitmentsOff
    /\ PivotOff
    /\ BulkOff
    /\ scores \in ScoreTables
    /\ epc = "idle"
    /\ ereq = NoEfficiency
    /\ fetched = NoneFetched
    /\ eresp = NoReply

NextEfficiency ==
    \/ \E e \in EfficiencyEndpoints, Territory \in EfficiencyKeys : EfficiencyReceive(e, Territory)
    \/ FtmResolves
    \/ YtdResolves
    \/ EfficiencyQueryRejects
    \/ EfficiencyContinue
    \/ EfficiencyCatch

SpecEfficiency == InitEfficiency /\ [][NextEfficiency]_vars

---------------------------------------------------------------------------
(* Reading a response *)

\* Request c was answered with a tree.
Answered(c) == pc[c] = "done" /\ resp[c].body.k = "hierarchy"

RECURSIVE NodesOf(_)
NodesOf(node) ==
    {node} \cup UNION {NodesOf(node.children[key]) : key \in DOMAIN node.children}

\* Every node of the forest sent to c.
Forest(c) ==
    UNION {NodesOf(resp[c].body.roots[key]) : key \in DOMAIN resp[c].body.roots}

RECURSIVE SumFn(_, _)
\* The sum of f over S.
SumFn(f, S) ==
    IF S = {} THEN 0
    ELSE LET x == CHOOSE y \in S : TRUE IN f[x] + SumFn(f, S \ {x})

Managers(c) == {node \in Forest(c) : DOMAIN node.children # {}}

Leaves(c) == {node \in Forest(c) : DOMAIN node.children = {}}

\* A child of node holds no number in f.
ChildNotNumber(node, f) ==
    \E key \in DOMAIN node.children : node.children[key][f].k # "num"

ChildSum(node, f) ==
    SumFn([key \in DOMAIN node.children |-> node.children[key][f].n], DOMAIN node.children)

\* num/den to the nearest integer, a half going up (all in tenths).
Nearest(num, den) == 10 * ((2 * num + 10 * den) \div (20 * den))

\* round(sum of the children's f / number of children); not a number when
\* a child's f is none.
MeanOfChildren(node, f) ==
    IF ChildNotNumber(node, f) THEN NaN
    ELSE Num(Nearest(ChildSum(node, f), Cardinality(DOMAIN node.children)))

\* The sum of the children's f; not a number when a child's f is none.
SumOfChildren(node, f) ==
    IF ChildNotNumber(node, f) THEN NaN ELSE Num(ChildSum(node, f))

RECURSIVE LeafSum(_, _)
\* The sum of f over the leaves at or below node (in tenths).
LeafSum(node, f) ==
    IF DOMAIN node.children = {} THEN node[f].n
    ELSE SumFn([key \in DOMAIN node.children |-> LeafSum(node.children[key], f)],
               DOMAIN node.children)

\* The number a row stores in a column: the number itself, the number a
\* string spells, and 0 where it stores none.
StoredNumber(v) ==
    IF v.k = "num" THEN v
    ELSE IF v.k = "str" /\ ParseFloatStr(v.s) # NaN THEN ParseFloatStr(v.s)
    ELSE Num(0)

RECURSIVE Occurrences(_, _)
\* How many nodes at or below node carry territory t.
Occurrences(node, t) ==
    (IF node.territory = Str(t) THEN 1 ELSE 0)
        + SumFn([key \in DOMAIN node.children |-> Occurrences(node.children[key], t)],
                DOMAIN node.children)

InForest(c, t) ==
    SumFn([key \in DOMAIN resp[c].body.roots |-> Occurrences(resp[c].body.roots[key], t)],
          DOMAIN resp[c].body.roots)

\* Some fetched row of c has Territory v.
IsTerritory(c, v) == \E i \in 1..Len(rows[c]) : rows[c][i].Territory = v

---------------------------------------------------------------------------
(* Claims *)

\* C1: in every /hierarchy result, each KPI field of a node with children
\* equals round(sum of its direct children's values of the field / number
\* of direct children).
C1_MeanOfChildren ==
    \A c \in Clients : Answered(c) =>
        \A node \in Managers(c) : \A f \in KpiFields :
            node[f] = MeanOfChildren(node, f)

\* C2: in every /hierarchy result, each product quantity of a node with
\* children equals the sum (not the mean) of the quantity over its direct
\* children, and so the sum of the quantity over all leaves below it.
C2_SumOfChildren ==
    \A c \in Clients : Answered(c) =>
        \A node \in Managers(c) : \A f \in QtyFields :
            /\ node[f] = SumOfChildren(node, f)
            /\ node[f] = Num(LeafSum(node, f))

\* C3: in every /hierarchy result, a node without children carries in each
\* of the seven metric fields the value its own row stores, with no
\* rounding, averaging or summing.
C3_LeafIdentity ==
    \A c \in Clients : Answered(c) =>
        \A node \in Leaves(c) : node.territory.k = "str" =>
            \A f \in MetricFields :
                node[f] = StoredNumber(byTerritory(rows[c], node.territory.s)[f])

\* C4: a row whose Area_Name is the Territory of no fetched row is never a
\* child of a node of the result (it appears, if at all, as a root).
C4_OrphanExclusion ==
    \A c \in Clients : Answered(c) =>
        \A node \in Forest(c) : \A key \in DOMAIN node.children :
            IsTerritory(c, byTerritory(rows[c], key).Area_Name)

\* C5: the result is a strict out-tree: each territory appears at most once
\* in the whole forest, so no node is both a root and a child, or a child of
\* two parents.
C5_OutTree ==
    \A c \in Clients : Answered(c) =>
        \A i \in 1..Len(rows[c]) : InForest(c, rows[c][i].Territory.s) <= 1

\* C6: every node of every result has all seven metric fields defined as
\* numbers: a missing, null or non-numeric stored value counts as 0, and
\* NaN is in no leaf and no ancestor.
C6_MetricsAreNumbers ==
    \A c \in Clients : Answered(c) =>
        \A node \in Forest(c) : \A f \in MetricFields : node[f].k = "num"

\* The request of c names a territory that no fetched row has, and rows
\* were fetched.
NoSuchTerritory(c) ==
    /\ pc[c] = "done" /\ query[c] = "resolved"
    /\ rows[c] # <<>>
    /\ req[c].territory.k = "str" /\ req[c].territory.s # <<>>
    /\ ~ IsTerritory(c, req[c].territory)

\* C7: a request for a territory that matches no row of a non-empty row
\* set is answered with the empty mapping {} and a success status.
C7_UnknownTerritoryEmpty ==
    \A c \in Clients : NoSuchTerritory(c) =>
        resp[c] = Reply(200, [k |-> "hierarchy", roots |-> <<>>])

\* The query of c returned zero rows and c was answered.
ZeroRows(c) == pc[c] = "done" /\ query[c] = "resolved" /\ rows[c] = <<>>

\* C8: when the query returns zero rows the handler answers with the
\* placeholder payload {message: "No data found"} and a success status,
\* whether or not a territory was requested.
C8_ZeroRowsPlaceholder ==
    \A c \in Clients : ZeroRows(c) => resp[c] = Reply(200, NoDataFound)

\* Zero rows came back from a table that holds rows (all of them vacant)
\* for a request that names a territory, and the placeholder was sent.
C8_Witness ==
    \E c \in Clients :
        /\ ZeroRows(c) /\ table # <<>> /\ Truthy(req[c].territory)
        /\ resp[c] = Reply(200, NoDataFound)

\* C9: when the query fails, buildNode is never invoked, nothing but the
\* status-500 error is ever sent, and it is sent once the handler is done.
C9_QueryFailureIs500 ==
    \A c \in Clients : query[c] = "rejected" =>
        /\ ~ invoked[c]
        /\ resp[c] \in {NoReply, Reply(500, ServerError("QueryError"))}
        /\ pc[c] = "done" => resp[c].status = 500 /\ resp[c].body.k = "text"

\* A request whose query failed has been answered, with status 500.
C9_Witness ==
    \E c \in Clients :
        pc[c] = "done" /\ query[c] = "rejected" /\ resp[c].status = 500 /\ ~ invoked[c]

---------------------------------------------------------------------------
(* What holds of C1-C7 where the inputs that break them are absent.  Each  *)
(* formula below is an invariant of Spec.                                  *)

\* Every metric the fetched rows of c store is a number, null, '' or a
\* string that spells a number.
MetricsNumeric(c) ==
    \A i \in 1..Len(rows[c]) : \A f \in MetricFields :
        Truthy(rows[c][i][f]) => parseFloat(rows[c][i][f]) # NaN

\* Every product quantity the fetched rows of c store is an integer.
QuantitiesIntegral(c) ==
    \A i \in 1..Len(rows[c]) : \A f \in QtyFields :
        StoredNumber(rows[c][i][f]).n % 10 = 0

\* No two fetched rows of c share a Territory.
TerritoriesUnique(c) ==
    \A i, j \in 1..Len(rows[c]) :
        rows[c][i].Territory = rows[c][j].Territory => i = j

\* No Area_Name among the fetched rows of c has white space around it.
AreaNamesTrimmed(c) ==
    \A i \in 1..Len(rows[c]) :
        rows[c][i].Area_Name.k = "str" =>
            trim(rows[c][i].Area_Name.s) = rows[c][i].Area_Name.s

\* C1 where no fetched row stores a non-numeric string.
MeanOfChildrenOnNumericRows ==
    \A c \in Clients : Answered(c) /\ MetricsNumeric(c) =>
        \A node \in Managers(c) : \A f \in KpiFields :
            node[f] = MeanOfChildren(node, f)

\* What lines 240-242 compute for C2: the children's sum rounded.
RoundedSumOfChildrenOnNumericRows ==
    \A c \in Clients : Answered(c) /\ MetricsNumeric(c) =>
        \A node \in Managers(c) : \A f \in QtyFields :
            node[f] = Num(Nearest(ChildSum(node, f), 1))

\* C2 where the stored quantities are integers and no string is non-numeric.
SumOfChildrenOnIntegralRows ==
    \A c \in Clients : Answered(c) /\ MetricsNumeric(c) /\ QuantitiesIntegral(c) =>
        \A node \in Managers(c) : \A f \in QtyFields :
            /\ node[f] = SumOfChildren(node, f)
            /\ node[f] = Num(LeafSum(node, f))

\* C3 where no fetched row stores a non-numeric string.
LeafIdentityOnNumericRows ==
    \A c \in Clients : Answered(c) /\ MetricsNumeric(c) =>
        \A node \in Leaves(c) : node.territory.k = "str" =>
            \A f \in MetricFields :
                node[f] = StoredNumber(byTerritory(rows[c], node.territory.s)[f])

\* C4 where territories are unique and Area_Names trimmed.
OrphanExclusionOnCleanKeys ==
    \A c \in Clients : Answered(c) /\ TerritoriesUnique(c) /\ AreaNamesTrimmed(c) =>
        \A node \in Forest(c) : \A key \in DOMAIN node.children :
            IsTerritory(c, byTerritory(rows[c], key).Area_Name)

\* C5 where territories are unique and Area_Names trimmed.
OutTreeOnCleanKeys ==
    \A c \in Clients : Answered(c) /\ TerritoriesUnique(c) /\ AreaNamesTrimmed(c) =>
        \A i \in 1..Len(rows[c]) : InForest(c, rows[c][i].Territory.s) <= 1

\* C6 where no fetched row stores a non-numeric string.
MetricsAreNumbersOnNumericRows ==
    \A c \in Clients : Answered(c) /\ MetricsNumeric(c) =>
        \A node \in Forest(c) : \A f \in MetricFields : node[f].k = "num"

\* C7 for a territory that is no member of Object.prototype.
UnknownTerritoryEmptyOffPrototype ==
    \A c \in Clients :
        NoSuchTerritory(c) /\ req[c].territory.s \notin ObjectPrototypeKeys =>
            resp[c] = Reply(200, [k |-> "hierarchy", roots |-> <<>>])

---------------------------------------------------------------------------
(* C11, C12: requests in flight together, and requests around a write *)

\* The query of request c resolved and the request was answered.
Served(c) == pc[c] = "done" /\ query[c] = "resolved"

\* C11: whatever the interleaving of two POST /hierarchy requests at their
\* awaits, each response is the one the request produces alone from the row
\* set its own query returned.
C11_NoSharedState ==
    \A c \in Clients :
        Served(c) => resp[c] = Respond(returned[c], req[c].territory)

\* Two requests for the same territory, each in flight while the other ran,
\* whose queries returned different row sets and that got different trees.
C11_Witness ==
    \E c \in Clients, d \in Clients :
        /\ c # d /\ Served(c) /\ Served(d)
        /\ interleaved[c] /\ interleaved[d]
        /\ req[c].territory = req[d].territory
        /\ returned[c] # returned[d]
        /\ Answered(c) /\ Answered(d) /\ resp[c] # resp[d]

\* C12: no tree is kept between requests.  A request that arrived after the
\* last UPDATE is answered from the table as it stands, whatever was sent
\* before.
C12_NoCaching ==
    \A c \in Clients :
        Served(c) /\ fresh[c] =>
            resp[c] = Respond(Select(table, req[c].includeInactive), req[c].territory)

\* A request answered before an UPDATE and again, with the same body, after
\* it: the quantity differs at the leaf the UPDATE wrote and at its parent.
C12_Witness ==
    \E c \in Clients :
        /\ Served(c) /\ fresh[c] /\ prior[c] = req[c] /\ Answered(c)
        /\ LET was == Respond(Select(old, req[c].includeInactive), req[c].territory)
           IN  /\ was.body.k = "hierarchy"
               /\ \E key \in DOMAIN resp[c].body.roots \cap DOMAIN was.body.roots :
                    LET now == resp[c].body.roots[key]
                        then == was.body.roots[key]
                    IN  /\ now.Deksel_Midmonth_Qty # then.Deksel_Midmonth_Qty
                        /\ \E ch \in DOMAIN now.children \cap DOMAIN then.children :
                             /\ DOMAIN now.children[ch].children = {}
                             /\ now.children[ch].Deksel_Midmonth_Qty
                                  # then.children[ch].Deksel_Midmonth_Qty

---------------------------------------------------------------------------
(* C13: the keys of the mapping *)

\* The Territory of every fetched row whose Area_Name is the Territory of
\* no fetched row.
ParentlessTerritories(c) ==
    {rows[c][i].Territory.s :
        i \in {j \in 1..Len(rows[c]) : ~ IsTerritory(c, rows[c][j].Area_Name)}}

\* C13: without a requested territory the keys of the mapping are the
\* territories of the rows whose Area_Name is no fetched row's Territory
\* (a null Area_Name among them); with a requested territory that a fetched
\* row carries, that territory is the one key.
C13_RootKeys ==
    \A c \in Clients :
        Answered(c) =>
            IF ~ Truthy(req[c].territory)
            THEN DOMAIN resp[c].body.roots = ParentlessTerritories(c)
            ELSE IsTerritory(c, req[c].territory) =>
                     DOMAIN resp[c].body.roots = {req[c].territory.s}

\* No territory was requested and the mapping has a key for a row without
\* Area_Name and one for a row whose Area_Name no row carries.
C13_Witness ==
    \E c \in Clients :
        /\ Answered(c) /\ ~ Truthy(req[c].territory)
        /\ \E i \in 1..Len(rows[c]), j \in 1..Len(rows[c]) :
              /\ rows[c][i].Area_Name = Null
              /\ Truthy(rows[c][j].Area_Name)
              /\ ~ IsTerritory(c, rows[c][j].Area_Name)
              /\ rows[c][i].Territory # rows[c][j].Territory
              /\ {rows[c][i].Territory.s, rows[c][j].Territory.s}
                    \subseteq DOMAIN resp[c].body.roots

\* The requested territory is a fetched row's and is the one key.
C13_WitnessRequested ==
    \E c \in Clients :
        /\ Answered(c) /\ IsTerritory(c, req[c].territory)
        /\ Len(rows[c]) > 1
        /\ DOMAIN resp[c].body.roots = {req[c].territory.s}

---------------------------------------------------------------------------
(* C14: Role *)

\* The values a Role is changed to.
Roles == {Str(Mgr), Str(BE), Null}

\* The row set with the Role of row i changed.
WithRole(rs, i, role) == [rs EXCEPT ![i].Role = role]

RECURSIVE Reroled(_, _, _)
\* The tree with role as the role field of the nodes of territory terr.
Reroled(node, terr, role) ==
    [node EXCEPT
        !.role = IF node.territory.s = terr THEN role ELSE @,
        !.children = [key \in DOMAIN @ |-> Reroled(@[key], terr, role)]]

\* The response with the role field of the nodes of terr changed.
ReroledReply(r, terr, role) ==
    IF r.body.k = "hierarchy"
    THEN [r EXCEPT !.body.roots = [key \in DOMAIN @ |-> Reroled(@[key], terr, role)]]
    ELSE r

\* Row i is the row byTerritory keeps for its Territory.
Kept(rs, i) == \A j \in 1..Len(rs) : j > i => rs[j].Territory # rs[i].Territory

\* C14: which nodes are aggregated and which pass their own values through
\* does not depend on Role.  Had the Role of any one fetched row been
\* another, the response would be the same but for the role field of the
\* nodes built from that row.
C14_RoleIsEchoOnly ==
    \A c \in Clients :
        Served(c) =>
            \A i \in 1..Len(rows[c]), role \in Roles :
                Respond(WithRole(rows[c], i, role), req[c].territory)
                    = IF Kept(rows[c], i)
                      THEN ReroledReply(resp[c], rows[c][i].Territory.s, role)
                      ELSE resp[c]

\* A tree in which a node with role BE has a child, its values aggregated,
\* and that child, with the role of a manager, has none.
C14_Witness ==
    \E c \in Clients :
        /\ Answered(c)
        /\ \E node \in Forest(c) :
              /\ node.role = Str(BE)
              /\ \E key \in DOMAIN node.children :
                    /\ node.children[key].role = Str(Mgr)
                    /\ DOMAIN node.children[key].children = {}
                    /\ node.Coverage = node.children[key].Coverage
                    /\ node.Coverage # Num(0)

---------------------------------------------------------------------------
(* C15: the scope key *)

\* A request to a scoped endpoint has arrived.
ScopedArrived == spc \notin {"off", "idle"}

\* C15: a request to one of these endpoints that does not carry the scope
\* key is answered 400 and the handler issues no query for it.
C15_MissingKeyIs400 ==
    ScopedArrived /\ sreq.key = Undefined =>
        spc = "done" /\ sresp.status = 400 /\ squeries = 0

\* Null and '' are refused in the same way.
C15_FalsyKeyIs400 ==
    ScopedArrived /\ sreq.key \in {Null, Str(<<>>)} =>
        spc = "done" /\ sresp.status = 400 /\ squeries = 0

\* POST /bmEfficiency without Territory: 400 and none of its two queries.
C15_Witness ==
    /\ spc = "done" /\ sreq.endpoint = "bmEfficiency" /\ sreq.key = Undefined
    /\ sresp.status = 400 /\ squeries = 0

\* The same endpoint with a Territory issues both queries.
C15_WitnessQueried ==
    /\ spc = "done" /\ sreq.endpoint = "bmEfficiency" /\ sreq.key = Str(<<"R">>)
    /\ sresp.status = 200 /\ squeries = 2

---------------------------------------------------------------------------
(* C16: rounding at each level *)

\* The nodes of the forest sent to c that have a grandchild.
Grandparents(c) ==
    {node \in Managers(c) :
        \E key \in DOMAIN node.children : DOMAIN node.children[key].children # {}}

RECURSIVE ProdFn(_, _)
\* The product of f over S.
ProdFn(f, S) ==
    IF S = {} THEN 1
    ELSE LET x == CHOOSE y \in S : TRUE IN f[x] * ProdFn(f, S \ {x})

RECURSIVE ExactMean(_, _)
\* The mean of f over the children of node with no rounding below node: a
\* leaf counts with its own value, a manager with the exact mean of its
\* children.  A quotient [num, den] in tenths.
ExactMean(node, f) ==
    IF DOMAIN node.children = {} THEN Quot(node[f].n, 1)
    ELSE LET each == [key \in DOMAIN node.children |-> ExactMean(node.children[key], f)]
             all == ProdFn([key \in DOMAIN each |-> each[key].den], DOMAIN each)
         IN  Quot(SumFn([key \in DOMAIN each |-> each[key].num * (all \div each[key].den)],
                        DOMAIN each),
                  all * Cardinality(DOMAIN each))

\* C16: a KPI of a node with grandchildren is round(mean of its children's
\* values as the response carries them), each child that has children
\* already rounded.
C16_RoundingAtEachLevel ==
    \A c \in Clients : Answered(c) =>
        \A node \in Grandparents(c) : \A f \in KpiFields :
            node[f] = MeanOfChildren(node, f)

\* C16 where no fetched row stores a non-numeric string.
RoundingAtEachLevelOnNumericRows ==
    \A c \in Clients : Answered(c) /\ MetricsNumeric(c) =>
        \A node \in Grandparents(c) : \A f \in KpiFields :
            node[f] = MeanOfChildren(node, f)

\* A node with grandchildren whose KPI, rounded at each level, is neither
\* the exact mean of means nor that mean rounded once at the top.
PerLevelRoundingDiffers ==
    \E c \in Clients :
        /\ Answered(c) /\ MetricsNumeric(c)
        /\ \E node \in Grandparents(c) : \E f \in KpiFields :
              LET exact == ExactMean(node, f)
              IN  /\ node[f] = MeanOfChildren(node, f)
                  /\ node[f].n * exact.den # exact.num
                  /\ node[f].n # Nearest(exact.num, exact.den)

---------------------------------------------------------------------------
(* C17: the rounding *)

\* r is the integer nearest to total/count, the upper one of two that are
\* equally near: r - 1/2 <= total/count < r + 1/2 (r and total in tenths).
NearestHalfUp(r, total, count) ==
    /\ r % 10 = 0
    /\ r * count - total <= 5 * count
    /\ total - r * count < 5 * count

\* C17: each KPI r of a node with children is within 1/2 of the mean of
\* its children's values, and is the higher integer when the mean lies
\* half-way between two.
C17_NearestHalfUp ==
    \A c \in Clients : Answered(c) =>
        \A node \in Managers(c) : \A f \in KpiFields :
            /\ node[f].k = "num"
            /\ ~ ChildNotNumber(node, f)
            /\ NearestHalfUp(node[f].n, ChildSum(node, f),
                             Cardinality(DOMAIN node.children))

\* C17 where no fetched row stores a non-numeric string.
NearestHalfUpOnNumericRows ==
    \A c \in Clients : Answered(c) /\ MetricsNumeric(c) =>
        \A node \in Managers(c) : \A f \in KpiFields :
            /\ node[f].k = "num"
            /\ ~ ChildNotNumber(node, f)
            /\ NearestHalfUp(node[f].n, ChildSum(node, f),
                             Cardinality(DOMAIN node.children))

\* Children with Calls 1 and 2 under a node with Calls 2.
HalfRoundsUp ==
    \E c \in Clients :
        /\ Answered(c)
        /\ \E node \in Managers(c) :
              /\ {node.children[key].Calls : key \in DOMAIN node.children}
                    = {Num(10), Num(20)}
              /\ Cardinality(DOMAIN node.children) = 2
              /\ node.Calls = Num(20)

\* Children with Calls 2 and -3, whose mean is -1/2, under a node with
\* Calls 0.
NegativeHalfRoundsUp ==
    \E c \in Clients :
        /\ Answered(c)
        /\ \E node \in Managers(c) :
              /\ {node.children[key].Calls : key \in DOMAIN node.children}
                    = {Num(20), Num(0 - 30)}
              /\ Cardinality(DOMAIN node.children) = 2
              /\ node.Calls = Num(0)

---------------------------------------------------------------------------
(* C18: the order of a build *)

\* The steps of the build that answered request c.
Trace(c) == BuildEvents(rows[c], req[c].territory)

\* Call x was made by call y.
CalledBy(x, y) == Len(x) = Len(y) + 1 /\ SubSeq(x, 1, Len(y)) = y

\* C18: the build is post-order.  Every call made for a child of a node has
\* returned before the node's aggregates are written, and once a parent has
\* read a child's metrics nothing writes them: both writes to the child lie
\* before the read, and so does the child's return.
C18_PostOrder ==
    \A c \in Clients : Answered(c) =>
        LET tr == Trace(c) IN
        \A p \in 1..Len(tr) :
            /\ tr[p].e = "agg" =>
                  \A q \in 1..Len(tr) :
                      CalledBy(tr[q].id, tr[p].id) =>
                          /\ q < p
                          /\ \E r \in 1..(p - 1) :
                                tr[r].e = "return" /\ tr[r].id = tr[q].id
            /\ tr[p].e = "read" =>
                  /\ \A q \in 1..Len(tr) :
                        tr[q].id = tr[p].id /\ tr[q].e \in {"own", "agg", "return"}
                            => q < p
                  /\ \E q \in 1..(p - 1) : tr[q].e = "return" /\ tr[q].id = tr[p].id

\* A build of three levels: a node aggregated over a child that was itself
\* aggregated, and a second child without children.
C18_Witness ==
    \E c \in Clients :
        /\ Answered(c)
        /\ LET tr == Trace(c) IN
           \E p \in 1..Len(tr), q \in 1..Len(tr), r \in 1..Len(tr) :
              /\ tr[p].e = "agg" /\ tr[q].e = "agg"
              /\ CalledBy(tr[q].id, tr[p].id)
              /\ tr[r].e = "read" /\ tr[r].by = tr[p].id /\ tr[r].id # tr[q].id

---------------------------------------------------------------------------
(* C19: acyclic row sets *)

\* The rows whose Territory is the Area_Name of a row of S: its parents.
Up(rs, S) ==
    {j \in 1..Len(rs) : \E i \in S : rs[i].Area_Name = rs[j].Territory}

RECURSIVE Above(_, _, _)
\* The rows reached from S by one to n parent references.
Above(rs, S, n) ==
    IF n = 0 \/ S = {} THEN {}
    ELSE Up(rs, S) \cup Above(rs, Up(rs, S), n - 1)

\* No row is reached from itself by parent references.
Acyclic(rs) == \A i \in 1..Len(rs) : i \notin Above(rs, {i}, Len(rs))

Max(S) == CHOOSE x \in S : \A y \in S : y <= x

RECURSIVE Level(_, _)
\* The level of row i in an acyclic row set: 1 for a row without a parent.
Level(rs, i) == 1 + Max({0} \cup {Level(rs, j) : j \in Up(rs, {i})})

\* The height of the forest of an acyclic row set.
Height(rs) == Max({0} \cup {Level(rs, i) : i \in 1..Len(rs)})

\* The deepest nesting of buildNode calls in a trace.
Depth(tr) == Max({0} \cup {Len(tr[p].id) : p \in 1..Len(tr)})

\* The calls of a trace made for territory t under root k.
Visits(tr, k, t) ==
    Cardinality({p \in 1..Len(tr) :
                    tr[p].e = "call" /\ tr[p].terr = t /\ tr[p].id[1] = k})

\* The build of request c overflowed the call stack.
Overflowed(c) ==
    pc[c] = "done" /\ resp[c].status = 500 /\ resp[c].body.err = "RangeError"

\* C19: on a row set whose parent relation is acyclic the build terminates,
\* calls buildNode at most once for each row under each requested root, and
\* never nests deeper than the height of the forest.
C19_AcyclicBuild ==
    \A c \in Clients :
        Served(c) /\ Acyclic(rows[c]) =>
            /\ ~ Overflowed(c)
            /\ Answered(c) =>
                  LET tr == Trace(c) IN
                  /\ \A p \in 1..Len(tr) : Visits(tr, tr[p].id[1], tr[p].terr) <= 1
                  /\ Depth(tr) <= Height(rows[c])

\* C19 on row sets with one row for each Territory and no white space
\* around an Area_Name.
AcyclicBuildOnCleanKeys ==
    \A c \in Clients :
        Served(c) /\ Acyclic(rows[c]) /\ TerritoriesUnique(c) /\ AreaNamesTrimmed(c) =>
            /\ ~ Overflowed(c)
            /\ Answered(c) =>
                  LET tr == Trace(c) IN
                  /\ \A p \in 1..Len(tr) : Visits(tr, tr[p].id[1], tr[p].terr) <= 1
                  /\ Depth(tr) <= Height(rows[c])

\* An acyclic row set of three levels built three calls deep.
AcyclicBuildReachesHeight ==
    \E c \in Clients :
        /\ Answered(c) /\ Acyclic(rows[c]) /\ TerritoriesUnique(c) /\ AreaNamesTrimmed(c)
        /\ Height(rows[c]) = 3 /\ Depth(Trace(c)) = 3

\* The first part of C19 alone: on an acyclic row set the build does not
\* overflow the stack.
AcyclicBuildTerminates ==
    \A c \in Clients : Served(c) /\ Acyclic(rows[c]) => ~ Overflowed(c)

\* The second part of C19 alone: on an acyclic row set no row is built
\* twice under one root.
AcyclicBuildVisitsOnce ==
    \A c \in Clients :
        Answered(c) /\ Acyclic(rows[c]) =>
            LET tr == Trace(c) IN
            \A p \in 1..Len(tr) : Visits(tr, tr[p].id[1], tr[p].terr) <= 1

---------------------------------------------------------------------------
(* C20: cyclic row sets *)

\* The rows that lie on a cycle of parent references.
OnCycle(rs) == {i \in 1..Len(rs) : i \in Above(rs, {i}, Len(rs))}

\* Territory v is carried by a row on a cycle or by a row above one.
OnOrAboveCycle(rs, v) ==
    \E i \in OnCycle(rs) : \E j \in {i} \cup Above(rs, {i}, Len(rs)) : rs[j].Territory = v

\* C20: a request for a territory on or above a cycle does not recurse
\* without bound and ends with a malformed-hierarchy error.
C20_CycleGuard ==
    \A c \in Clients :
        Served(c) /\ OnOrAboveCycle(rows[c], req[c].territory) =>
            /\ ~ Overflowed(c)
            /\ resp[c].body.k = "malformed"

\* What the code does instead: every such request overflows the call stack
\* and is answered with the 500 of the catch block.
CycleOverflows ==
    \A c \in Clients :
        Served(c) /\ OnOrAboveCycle(rows[c], req[c].territory) => Overflowed(c)

\* A request for the territory of a row whose Area_Name is its own
\* Territory, answered with that 500.
SelfLoopOverflows ==
    \E c \in Clients :
        /\ Overflowed(c)
        /\ \E i \in 1..Len(rows[c]) :
              /\ rows[c][i].Area_Name = rows[c][i].Territory
              /\ rows[c][i].Territory = req[c].territory

---------------------------------------------------------------------------
(* C21: a manager's own row *)

\* The metric columns a row is given in place of its own.
Profiles == {P0, PA, PB, PC, PD}

\* The row set with the seven metric columns of row i replaced by m.
WithMetrics(rs, i, m) ==
    [rs EXCEPT ![i] = [f \in RowFields |-> IF f \in MetricFields THEN m[f] ELSE @[f]]]

\* The row byTerritory keeps for territory t: the last one.
KeptRow(rs, t) ==
    CHOOSE i \in 1..Len(rs) :
        /\ rs[i].Territory.s = t
        /\ \A j \in 1..Len(rs) : rs[j].Territory.s = t => j <= i

\* C21: the seven metrics of a node with a child are a function of its
\* children alone.  Had the row of any such node stored other metric values,
\* the response would be the same in every part.
C21_OwnRowIgnored ==
    \A c \in Clients :
        Answered(c) =>
            \A node \in Managers(c) : \A m \in Profiles :
                Respond(WithMetrics(rows[c], KeptRow(rows[c], node.territory.s), m),
                        req[c].territory) = resp[c]

\* A node with a child whose own row stores a Coverage, a number, that is
\* not the Coverage the node carries.
C21_Witness ==
    \E c \in Clients :
        /\ Answered(c)
        /\ \E node \in Managers(c) :
              LET own == rows[c][KeptRow(rows[c], node.territory.s)]
              IN  /\ own.Coverage.k = "num" /\ own.Coverage.n # 0
                  /\ node.Coverage.k = "num"
                  /\ node.Coverage # own.Coverage

---------------------------------------------------------------------------
(* C22: every row once, under its parent *)

\* Request c named no territory and was answered with a forest.
WholeForest(c) == Answered(c) /\ ~ Truthy(req[c].territory)

\* Fetched row i of c is in the forest once, and it is a child of the node
\* of the territory in its Area_Name when a fetched row carries that
\* territory, else a root.
PlacedOnce(c, i) ==
    LET r == rows[c][i] IN
    /\ InForest(c, r.Territory.s) = 1
    /\ IF IsTerritory(c, r.Area_Name)
       THEN /\ r.Territory.s \notin DOMAIN resp[c].body.roots
            /\ \E node \in Forest(c) :
                  /\ node.territory = r.Area_Name
                  /\ r.Territory.s \in DOMAIN node.children
       ELSE r.Territory.s \in DOMAIN resp[c].body.roots

\* C22: without a requested territory, on a row set with one row for each
\* Territory and an acyclic parent relation, every fetched row is in the
\* forest exactly once, directly under the node whose Territory is its
\* Area_Name, or a root when there is no such row.
C22_EveryRowOnce ==
    \A c \in Clients :
        WholeForest(c) /\ TerritoriesUnique(c) /\ Acyclic(rows[c]) =>
            \A i \in 1..Len(rows[c]) : PlacedOnce(c, i)

\* C22 where no Area_Name has white space around it.
EveryRowOnceOnCleanKeys ==
    \A c \in Clients :
        WholeForest(c) /\ TerritoriesUnique(c) /\ Acyclic(rows[c])
                /\ AreaNamesTrimmed(c) =>
            \A i \in 1..Len(rows[c]) : PlacedOnce(c, i)

\* A forest of three levels and a second root, every row placed once.
EveryRowOnceOnThreeLevels ==
    \E c \in Clients :
        /\ WholeForest(c) /\ TerritoriesUnique(c) /\ Acyclic(rows[c])
        /\ AreaNamesTrimmed(c)
        /\ Height(rows[c]) = 3 /\ Len(rows[c]) = 3
        /\ \A i \in 1..Len(rows[c]) : PlacedOnce(c, i)

\* The row A with Area_Name 'R ' beside the row R: a root, and a child of R.
RowUnderTrimmedParentTwice ==
    \E c \in Clients :
        /\ WholeForest(c) /\ TerritoriesUnique(c) /\ Acyclic(rows[c])
        /\ \E i \in 1..Len(rows[c]) :
              /\ rows[c][i].Area_Name = Str(<<"R", " ">>)
              /\ InForest(c, rows[c][i].Territory.s) = 2
              /\ rows[c][i].Territory.s \in DOMAIN resp[c].body.roots

---------------------------------------------------------------------------
(* C23: cycles and the top-level rows *)

\* The rows that childRows takes for the parents of a row of S: Area_Name
\* and Territory compared after trim.
UpTrimmed(rs, S) ==
    {j \in 1..Len(rs) : \E i \in S : IsChildRow(rs[i], rs[j])}

RECURSIVE AboveTrimmed(_, _, _)
\* The rows reached from S by one to n such parent references.
AboveTrimmed(rs, S, n) ==
    IF n = 0 \/ S = {} THEN {}
    ELSE UpTrimmed(rs, S) \cup AboveTrimmed(rs, UpTrimmed(rs, S), n - 1)

\* The rows on a cycle of parent references and the rows below one.
OnOrBelowCycle(rs) ==
    LET cyc == {i \in 1..Len(rs) : i \in AboveTrimmed(rs, {i}, Len(rs))}
    IN  cyc \cup {i \in 1..Len(rs) : AboveTrimmed(rs, {i}, Len(rs)) \cap cyc # {}}

\* The query of c returned rows for a request that names no territory.
WholeBuild(c) == Served(c) /\ rows[c] # <<>> /\ ~ Truthy(req[c].territory)

\* C23: without a requested territory no row on a cycle of parent
\* references is reached from a top-level row: the build terminates with a
\* forest, and the rows on a cycle and the rows below them are not in it.
C23_CyclesUnreached ==
    \A c \in Clients :
        WholeBuild(c) =>
            /\ ~ Overflowed(c)
            /\ Answered(c)
            /\ \A i \in OnOrBelowCycle(rows[c]) : InForest(c, rows[c][i].Territory.s) = 0

\* C23 on row sets with one row for each Territory and no white space
\* around an Area_Name.
CyclesUnreachedOnCleanKeys ==
    \A c \in Clients :
        WholeBuild(c) /\ TerritoriesUnique(c) /\ AreaNamesTrimmed(c) =>
            /\ ~ Overflowed(c)
            /\ Answered(c)
            /\ \A i \in OnOrBelowCycle(rows[c]) : InForest(c, rows[c][i].Territory.s) = 0

\* A forest with a root, built from rows of which two are on a cycle.
CycleLeftOut ==
    \E c \in Clients :
        /\ WholeBuild(c) /\ TerritoriesUnique(c) /\ AreaNamesTrimmed(c)
        /\ Answered(c) /\ DOMAIN resp[c].body.roots # {}
        /\ Cardinality(OnOrBelowCycle(rows[c])) >= 2
        /\ \A i \in OnOrBelowCycle(rows[c]) : InForest(c, rows[c][i].Territory.s) = 0

\* The rows A with Area_Name 'R ' and R with Area_Name 'A': A is a top-level
\* row and the build from it overflows the stack.
TrimmedCycleOverflows ==
    \E c \in Clients :
        /\ WholeBuild(c) /\ TerritoriesUnique(c) /\ Overflowed(c)
        /\ \E i \in 1..Len(rows[c]) : rows[c][i].Area_Name = Str(<<"R", " ">>)

\* Two rows for R, one without Area_Name and one under A: R is a top-level
\* row, byTerritory keeps the row under A, and the build overflows.
DuplicateCycleOverflows ==
    \E c \in Clients :
        /\ WholeBuild(c) /\ AreaNamesTrimmed(c) /\ ~ TerritoriesUnique(c)
        /\ Overflowed(c)

---------------------------------------------------------------------------
(* C24: vacant rows *)

\* The rows of the table with Emp_Code 'Vacant' whose Territory no other
\* row of the table carries with another Emp_Code: the vacant units.
VacantUnits ==
    {v \in 1..Len(table) :
        /\ ~ NotVacant(table[v])
        /\ \A i \in 1..Len(table) :
              table[i].Territory = table[v].Territory => ~ NotVacant(table[i])}

\* The territories of the rows above row v of the table.
AncestorsOf(v) ==
    {table[j].Territory : j \in AboveTrimmed(table, {v}, Len(table))}

\* The fetched rows of c that childRows puts under row v of the table.
Subordinates(c, v) == {s \in 1..Len(rows[c]) : IsChildRow(rows[c][s], table[v])}

\* C24: the rows with Emp_Code 'Vacant' are fetched when includeInactive is
\* the boolean true and for no other value.  Without them the response is
\* the one built from the table less those rows: a vacant unit is no node
\* and counts in no mean or sum, and its subordinates are below none of its
\* ancestors, and are roots when no territory is requested.
C24_VacantOnlyWhenTrue ==
    \A c \in Clients :
        Served(c) =>
            IF req[c].includeInactive = True
            THEN rows[c] = table
            ELSE /\ \A i \in 1..Len(rows[c]) : NotVacant(rows[c][i])
                 /\ resp[c] = Respond(SelectSeq(table, NotVacant), req[c].territory)
                 /\ Answered(c) =>
                      \A v \in VacantUnits :
                          /\ InForest(c, table[v].Territory.s) = 0
                          /\ \A s \in Subordinates(c, v) :
                                /\ ~ Truthy(req[c].territory) =>
                                      rows[c][s].Territory.s \in DOMAIN resp[c].body.roots
                                /\ \A node \in Forest(c) :
                                      node.territory \in AncestorsOf(v) =>
                                          Occurrences(node, rows[c][s].Territory.s) = 0

\* C24 on tables with one row for each Territory.
VacantOnlyWhenTrueOnUniqueTerritories ==
    \A c \in Clients :
        Served(c) /\ (\A i, j \in 1..Len(table) :
                          table[i].Territory = table[j].Territory => i = j) =>
            IF req[c].includeInactive = True
            THEN rows[c] = table
            ELSE /\ \A i \in 1..Len(rows[c]) : NotVacant(rows[c][i])
                 /\ resp[c] = Respond(SelectSeq(table, NotVacant), req[c].territory)
                 /\ Answered(c) =>
                      \A v \in VacantUnits :
                          /\ InForest(c, table[v].Territory.s) = 0
                          /\ \A s \in Subordinates(c, v) :
                                /\ ~ Truthy(req[c].territory) =>
                                      rows[c][s].Territory.s \in DOMAIN resp[c].body.roots
                                /\ \A node \in Forest(c) :
                                      node.territory \in AncestorsOf(v) =>
                                          Occurrences(node, rows[c][s].Territory.s) = 0

\* includeInactive is the number 1, the vacant unit B under R has the
\* subordinate C: R is a root without children and C is a root.
C24_Witness ==
    \E c \in Clients :
        /\ Answered(c) /\ req[c].includeInactive = Num(10)
        /\ ~ Truthy(req[c].territory)
        /\ \E v \in VacantUnits :
              /\ AncestorsOf(v) # {}
              /\ Subordinates(c, v) # {}
              /\ \E node \in Forest(c) :
                    node.territory \in AncestorsOf(v) /\ DOMAIN node.children = {}

\* includeInactive is true: the vacant unit is a node of the forest.
VacantIncludedWhenTrue ==
    \E c \in Clients :
        /\ Answered(c) /\ req[c].includeInactive = True
        /\ \E v \in VacantUnits : InForest(c, table[v].Territory.s) = 1

---------------------------------------------------------------------------
(* C25: what PUT /updateProductQty answers *)

\* The rows of t that carry the territory of update request w.
Targets(t, w) == {i \in 1..Len(t) : t[i].Territory = wreq[w].territory}

\* Every row of the territory of w stores the value w asks for, and there
\* is such a row.
Stored(t, w) ==
    /\ Targets(t, w) # {}
    /\ \A i \in Targets(t, w) : t[i][wreq[w].metric_type.name] = wreq[w].value

\* The step at which request w is answered.
Answers(w) == wpc[w] # "done" /\ wpc'[w] = "done"

\* C25: at the step that answers alreadyUpToDate: true the request has
\* issued no UPDATE and the table stores the requested value for the
\* territory; at the step that answers success: true the UPDATE of the
\* request has set the value on at least one row.
C25_UpdateAnswers ==
    [][\A w \in Writers :
          Answers(w) =>
              /\ wresp'[w] = AlreadyUpToDate =>
                    updates'[w] = 0 /\ Stored(table', w)
              /\ wresp'[w].body.k = "updated" =>
                    updates'[w] = 1 /\ wres'[w] >= 1]_vars

\* Request w was answered alreadyUpToDate: true and no UPDATE has run
\* since its SELECT.
UpToDateUndisturbed(w) ==
    /\ wpc[w] = "done" /\ wresp[w] = AlreadyUpToDate
    /\ \A x \in Writers : x # w => wpc[x] \in {"off", "idle"}

\* A request answered alreadyUpToDate: true while the table holds another
\* value, written by the other request between the SELECT and the answer.
UpToDateAfterOtherWrite ==
    \E w \in Writers, x \in Writers :
        /\ w # x /\ wpc[w] = "done" /\ wresp[w] = AlreadyUpToDate
        /\ wpc[x] \in {"updated", "done"} /\ updates[x] = 1
        /\ wreq[x].territory = wreq[w].territory
        /\ Cardinality(Targets(table, w)) = 1
        /\ ~ Stored(table, w)

\* A request answered alreadyUpToDate: true on the first row of its
\* territory while a second row stores another value; no other request.
UpToDateOnFirstRowOnly ==
    \E w \in Writers :
        /\ UpToDateUndisturbed(w)
        /\ Cardinality(Targets(table, w)) = 2
        /\ ~ Stored(table, w)

\* A request answered success: true whose UPDATE matched no row.
SuccessWithoutRow ==
    \E w \in Writers :
        /\ wpc[w] = "done" /\ wresp[w].body.k = "updated"
        /\ wresp[w].body.affectedRows = 0
        /\ Targets(table, w) = {}

\* A request answered success: true whose UPDATE set the value on a row.
SuccessOnRow ==
    \E w \in Writers :
        /\ wpc[w] = "done" /\ wresp[w].body.k = "updated"
        /\ wresp[w].body.affectedRows = 1 /\ Stored(table, w)

---------------------------------------------------------------------------
(* C26: the outcomes of PUT /updateCommitment *)

\* The status the four tests give, taken in order, for body over table t.
FourOutcomes(t, body) ==
    IF ~ Truthy(body.id) THEN 400
    ELSE IF body.receiver_commit_date = Undefined /\ body.goal = Undefined THEN 400
    ELSE IF WhereId(t, body.id) = {} THEN 404
    ELSE 200

\* t with the fields the body supplies written to the commitment of its id.
SuppliedWritten(t, body) ==
    [i \in DOMAIN t |->
        IF body.id = Num(10 * i)
        THEN [receiver_commit_date |->
                  IF body.receiver_commit_date # Undefined
                  THEN body.receiver_commit_date ELSE t[i].receiver_commit_date,
              goal |-> IF body.goal # Undefined THEN body.goal ELSE t[i].goal]
        ELSE t[i]]

\* What the answer and the table are when the status is one of the four.
AsTheFourOutcomes ==
    /\ cresp.status = FourOutcomes(cold, creq)
    /\ commitments = IF cresp.status = 200 THEN SuppliedWritten(cold, creq) ELSE cold

\* C26 as stated: every answer is one of the four outcomes, 400, 400, 404,
\* 200, decided in that order; with 200 the supplied fields of the one
\* commitment are written and nothing else, and otherwise nothing is.
C26_FourOutcomes == cpc = "done" => AsTheFourOutcomes

\* C26 with the outcome the catch block adds: when the UPDATE fails the
\* answer is 500 and no commitment is modified; every other answer is one
\* of the four outcomes.
C26_FiveOutcomes ==
    cpc = "done" =>
        IF cresp.status = 500
        THEN FourOutcomes(cold, creq) \in {200, 404} /\ commitments = cold
        ELSE AsTheFourOutcomes

\* 200 for a body with a date and no goal: of two commitments the one with
\* the id has the new date and its old goal, the other is as it was.
C26_Witness ==
    /\ cpc = "done" /\ cresp.status = 200
    /\ creq.goal = Undefined /\ creq.receiver_commit_date = Str(<<"d", "1">>)
    /\ Cardinality(DOMAIN commitments) = 2
    /\ \E i \in DOMAIN commitments :
          /\ creq.id = Num(10 * i)
          /\ commitments[i].receiver_commit_date = Str(<<"d", "1">>)
          /\ commitments[i].goal = Str(<<"g", "0">>)
          /\ commitments[i].goal = cold[i].goal
          /\ \A j \in DOMAIN commitments \ {i} : commitments[j] = cold[j]

\* 404 for a body with a goal and the id of no commitment; nothing written.
NoSuchCommitment ==
    /\ cpc = "done" /\ cresp.status = 404
    /\ creq.goal # Undefined /\ commitments = cold /\ commitments # <<>>

\* 500 for a body that passes both validations.
UpdateCommitmentFailed ==
    /\ cpc = "done" /\ cresp.status = 500
    /\ FourOutcomes(cold, creq) = 200 /\ commitments = cold

---------------------------------------------------------------------------
(* C27: the pivot of POST /getTable2 *)

\* POST /getTable2 was answered with a pivot.
Pivoted == ppc = "done" /\ presp.status = 200

\* The entries of the result for product p.
EntriesOf(p) ==
    {i \in 1..Len(presp.body.results) : presp.body.results[i].ProductName = p}

\* The sum of the per-stockist values an entry reports.
StockistSum(e) == SumFn([s \in DOMAIN e.stockists |-> e.stockists[s].n], DOMAIN e.stockists)

\* C27: the result has exactly one entry for each distinct ProductName of
\* the rows, and the GrandTotal of an entry is the sum of the per-stockist
\* values of that entry.
C27_PivotTotals ==
    Pivoted =>
        /\ \A r \in 1..Len(sales) : Cardinality(EntriesOf(sales[r].ProductName)) = 1
        /\ \A i \in 1..Len(presp.body.results) :
              /\ \E r \in 1..Len(sales) :
                    sales[r].ProductName = presp.body.results[i].ProductName
              /\ presp.body.results[i].GrandTotal
                    = Num(StockistSum(presp.body.results[i]))

\* No two rows have the same ProductName and stockistname, and no
\* ProductName is a member of Object.prototype.
PairsUnique ==
    /\ \A q, r \in 1..Len(sales) :
          sales[q].ProductName = sales[r].ProductName
              /\ sales[q].stockistname = sales[r].stockistname => q = r
    /\ \A r \in 1..Len(sales) : sales[r].ProductName \notin ObjectPrototypeKeys

\* C27 on such rows.
PivotTotalsOnUniquePairs ==
    Pivoted /\ PairsUnique =>
        /\ \A r \in 1..Len(sales) : Cardinality(EntriesOf(sales[r].ProductName)) = 1
        /\ \A i \in 1..Len(presp.body.results) :
              /\ \E r \in 1..Len(sales) :
                    sales[r].ProductName = presp.body.results[i].ProductName
              /\ presp.body.results[i].GrandTotal
                    = Num(StockistSum(presp.body.results[i]))

\* Two products, one of them with two stockists, each entry adding up.
PivotOfTwoProducts ==
    /\ Pivoted /\ PairsUnique /\ Len(presp.body.results) = 2
    /\ \E i \in 1..2 :
          /\ Cardinality(DOMAIN presp.body.results[i].stockists) = 2
          /\ presp.body.results[i].GrandTotal = Num(35)

\* Two rows for one product and one stockist, with Sales 1 and 2.5: the
\* entry reports 2.5 for the stockist and a GrandTotal of 3.5.
RepeatedPairCountedTwice ==
    /\ Pivoted /\ Len(sales) = 2
    /\ sales[1].ProductName = sales[2].ProductName
    /\ sales[1].stockistname = sales[2].stockistname
    /\ sales[1].Sales = Num(10) /\ sales[2].Sales = Num(25)
    /\ Len(presp.body.results) = 1
    /\ presp.body.results[1].GrandTotal = Num(35)
    /\ StockistSum(presp.body.results[1]) = 25

\* Rows of the product 'valueOf' and no entry for it.
InheritedProductMissing ==
    /\ Pivoted
    /\ \E r \in 1..Len(sales) :
          sales[r].ProductName \in ObjectPrototypeKeys
              /\ EntriesOf(sales[r].ProductName) = {}

---------------------------------------------------------------------------
(* C28: the bulk-insert endpoints *)

\* The rows the request carries: the elements of the array, or the one
\* object.
Received == Len(breq.items)

\* The rows the tables hold beyond those they held when the request came.
InsertedInto(t) == Len(store[t]) - Len(bold[t])

\* The table of the request grew by n rows at its end and no other table
\* changed.
Grew(n) ==
    \A t \in DOMAIN store :
        IF t = BulkTable[breq.endpoint]
        THEN InsertedInto(t) = n /\ SubSeq(store[t], 1, Len(bold[t])) = bold[t]
        ELSE store[t] = bold[t]

\* What C28 says of an answered request, but for the INSERT being issued.
BulkOutcome ==
    /\ breq.array /\ Received = 0 =>
          bresp.status = 400 /\ issued = 0 /\ store = bold
    /\ issued <= 1
    /\ bresp.status = 201 =>
          /\ issued = 1 /\ Grew(Received)
          /\ breq.endpoint = "putInfo" => bresp.body.inserted = Received
    /\ bresp.status = 500 => store = bold

\* C28: a single object is a batch of one row; an empty array is answered
\* 400 and inserts nothing; every other request issues one INSERT for the
\* whole batch, so that 201 means as many rows inserted as received (the
\* `inserted` of /putInfo) and 500 means none.
C28_BulkInsert ==
    bpc = "done" =>
        /\ BulkOutcome
        /\ Received > 0 => issued = 1

\* Every element of the batch is an object, with a message in /putInfo.
WellFormed ==
    \A i \in 1..Len(breq.items) : ~ MapThrows(breq.endpoint, breq.items[i])

\* C28 for batches of such elements.
BulkInsertOnWellFormedRows ==
    bpc = "done" /\ WellFormed =>
        /\ BulkOutcome
        /\ Received > 0 => issued = 1

\* What holds for every request: all of C28 but that an INSERT is issued.
BulkOutcomeAlways == bpc = "done" => BulkOutcome

\* /putInfo answered 201 with inserted: 2 for an array of two rows.
BulkInsertedTwo ==
    /\ bpc = "done" /\ breq.endpoint = "putInfo" /\ bresp.status = 201
    /\ breq.array /\ Received = 2 /\ bresp.body.inserted = 2

\* A single object answered 201, one row inserted.
SingleObjectInserted ==
    /\ bpc = "done" /\ ~ breq.array /\ bresp.status = 201 /\ Grew(1)

\* A failed INSERT of two rows: 500 and no row inserted.
BulkInsertFailed ==
    /\ bpc = "done" /\ bresp.status = 500 /\ issued = 1 /\ Received = 2
    /\ store = bold

\* /putInfo with a row that has no message: 500 and no INSERT issued.
NoMessageNoInsert ==
    /\ bpc = "done" /\ breq.endpoint = "putInfo" /\ bresp.status = 500
    /\ issued = 0 /\ Received > 0
    /\ \A i \in 1..Len(breq.items) : breq.items[i] # Null

\* /putData with an array holding null: 500 and no INSERT issued.
NullElementNoInsert ==
    /\ bpc = "done" /\ breq.endpoint = "putData" /\ bresp.status = 500
    /\ issued = 0 /\ Received > 0

---------------------------------------------------------------------------
(* C29: the efficiency endpoints *)

\* The efficiency request was answered with totals.
Totalled == epc = "done" /\ eresp.status = 200

\* The query of period p returned and found no row for the Territory.
ReturnedNoRow(p) == p \in fetched.resolved /\ fetched[p] = <<>>

\* What a score counts for: its value when it is a number or spells one,
\* 0 when it is null, absent or not numeric.
Counted(v) ==
    CASE v.k = "milli" -> v.n
      [] v.k = "str" /\ StringToNumber(v.s) # NaN -> StringToNumber(v.s).n
      [] OTHER -> 0

\* The scores of the category key of the first fetched row, so counted.
CountedSum(key) ==
    LET cols == Summed[ereq.endpoint][key[2]][key[1]]
        row == fetched[key[2]][1]
    IN  SumFn([i \in 1..Len(cols) |-> Counted(Field(row, cols[i]))], 1..Len(cols))

\* The category totals of period p that the response reports, added up.
ReportedSum(p) ==
    SumFn([cat \in Categories(ereq.endpoint) |-> eresp.body.totals[<<cat, p>>]],
          Categories(ereq.endpoint))

\* Each index is the sum of the category totals reported beside it, and
\* each category total is the sum of its scores with null and non-numeric
\* scores counted as 0: exactly, or to the nearest hundredth where the
\* endpoint applies toFixed(2).
TotalsAddUp ==
    Totalled =>
        /\ \A p \in Periods : eresp.body.totals[<<"efficiency", p>>] = ReportedSum(p)
        /\ \A key \in TotalKeys(ereq.endpoint) :
              LET t == eresp.body.totals[key]
                  d == t - CountedSum(key)
              IN  IF ereq.endpoint \in Fixed
                  THEN t % 10 = 0 /\ d <= 5 /\ 0 - d <= 5
                  ELSE d = 0

\* C29 as stated: an efficiency endpoint answers 404 exactly when the FTM
\* query or the YTD query returns no row for the Territory, and otherwise
\* efficiencyMonth and efficiencyYTD are the sums of the category totals
\* reported, a null or non-numeric score counting as 0.
C29_NoRowIs404 ==
    epc = "done" =>
        /\ eresp.status = 404 <=> ReturnedNoRow("ftm") \/ ReturnedNoRow("ytd")
        /\ TotalsAddUp

\* C29, amended: the 404 is sent exactly when both queries have returned
\* and one of them found no row; a rejected query is answered 500 whatever
\* the other query found, a missing Territory 400, and the 200 carries
\* totals that add up as stated.
C29_NoRowOfBothIs404 ==
    epc = "done" =>
        /\ eresp.status = 404 <=>
              /\ fetched.resolved = Periods
              /\ ReturnedNoRow("ftm") \/ ReturnedNoRow("ytd")
        /\ eresp.status = 500 <=> Truthy(ereq.Territory) /\ fetched.resolved # Periods
        /\ eresp.status = 400 <=> ~ Truthy(ereq.Territory)
        /\ eresp.status \in {200, 400, 404, 500}
        /\ TotalsAddUp

\* /blEfficiency answers with a commitment total that is not 0 and a
\* business total rounded from scores among which one is null and one is
\* not numeric.
C29_Witness ==
    /\ Totalled /\ ereq.endpoint = "blEfficiency"
    /\ eresp.body.totals[<<"commitment", "ftm">>] # 0
    /\ eresp.body.totals[<<"business", "ftm">>] # CountedSum(<<"business", "ftm">>)
    /\ \E c \in DOMAIN fetched.ftm[1] : fetched.ftm[1][c] = Null
    /\ \E c \in DOMAIN fetched.ftm[1] : Number(fetched.ftm[1][c]) = NaN

\* The FTM query found no row and the YTD query was rejected: 500, not 404.
NoRowThenRejected ==
    epc = "done" /\ ReturnedNoRow("ftm") /\ eresp.status = 500

\* The 404 of a territory with an FTM row and no YTD row.
NoYtdRowIs404 ==
    /\ epc = "done" /\ eresp.status = 404
    /\ fetched.ftm # <<>> /\ fetched.ytd = <<>>

\* A total that ends in 5 thousandths is reported rounded down.
TieRoundedDown ==
    /\ Totalled /\ ereq.endpoint \in Fixed
    /\ \E key \in TotalKeys(ereq.endpoint) :
          eresp.body.totals[key] - CountedSum(key) = 0 - 5

\* A total that ends in 5 thousandths is reported rounded up.
TieRoundedUp ==
    /\ Totalled /\ ereq.endpoint \in Fixed
    /\ \E key \in TotalKeys(ereq.endpoint) :
          eresp.body.totals[key] - CountedSum(key) = 5

\* /bhEfficiency reports totals with three decimals.
UnroundedTotals ==
    /\ Totalled /\ ereq.endpoint = "bhEfficiency"
    /\ eresp.body.totals[<<"efficiency", "ftm">>] % 10 # 0

====
